---- MODULE Spec2Model ----
(***************************************************************************)
(* Model of the Scrypted telemetry dashboard generator (src/tteck.py) and  *)
(* of its REST facade (src/plugin_api.py).                                 *)
(*                                                                         *)
(* Strings are TLA+ strings; Python's `in`, startswith and rsplit are      *)
(* computed on them character by character.  The pictographs that open     *)
(* some panel titles in the source are written as ASCII short codes        *)
(* (":rocket:"), none of which contains a filter keyword.                  *)
(***************************************************************************)
EXTENDS Integers, Sequences, FiniteSets, TLC

VARIABLES
    op,         \* the operation this run serves: "generate", "import", "validate",
                \* "discover" (facade handlers) or "cli" (the command line of tteck.py)
    prom,       \* the Prometheus server the generator of `build` talks to
    build,      \* [g, panels]: the ScryptedDashboardGenerator instance of the generate
                \* request (or of the command line) and the panel list it builds
    gpc,        \* position of the generate request
    gopts,      \* options of the generate request
    gresp,      \* response of the generate request
    imp,        \* the import request: [pc, req, calls, grafana, resp]
    val,        \* the validate request: [pc, req, validation, calls, answers, resp]
    cache,      \* discovery_cache: [timestamp, results], each None or a value
    now,        \* datetime.now(), in seconds
    dthread,    \* the request thread t of the discover handler: its position, its
                \* request, its locals and its response
    served,     \* number of discover requests received
    last,       \* the discover response sent last, with its request
    cli,        \* the command line run: [pc, args, probe, grafana, calls, file, exit]
    solo,       \* [ok, timestamp]: whether the discover request received last arrived
                \* after a success response with no other request being served, and
                \* the cached timestamp it arrived to
    npu,        \* the Intel NPU exporter: its two gauges and the scrape it serves
    reuse       \* a generator whose discovery runs more than once: [pc, g, world, runs]

genVars == <<prom, build, gpc, gopts, gresp>>
discVars == <<cache, now, dthread, served, last, solo, cli, npu, reuse>>
vars ==
    <<op, prom, build, gpc, gopts, gresp, imp, val, cache, now, dthread, served, last, solo,
      cli, npu, reuse>>

(***************************************************************************)
(* Python string operations                                                *)
(***************************************************************************)

\* `k in s` for strings
Contains(s, k) ==
    \E i \in 1..(Len(s) + 1 - Len(k)) : SubSeq(s, i, i + Len(k) - 1) = k

\* s.startswith(k)
StartsWith(s, k) == Len(s) >= Len(k) /\ SubSeq(s, 1, Len(k)) = k

\* s.startswith((k1, k2, ...))
StartsWithAny(s, ks) == \E k \in ks : StartsWith(s, k)

\* position of the last ":" of s, 0 when there is none
LastColon(s) ==
    LET at == {i \in 1..Len(s) : SubSeq(s, i, i) = ":"}
    IN  IF at = {} THEN 0 ELSE CHOOSE i \in at : \A j \in at : j <= i

\* s.split(":", 1): the split at the first ":" instead
SplitFirstColon(s) ==
    LET c == CHOOSE i \in 1..Len(s) :
                 SubSeq(s, i, i) = ":" /\ \A j \in 1..(i - 1) : SubSeq(s, j, j) # ":"
    IN  <<SubSeq(s, 1, c - 1), SubSeq(s, c + 1, Len(s))>>

\* s.rsplit(":", 1) of a string that contains ":"
RSplitColon(s) ==
    LET c == LastColon(s)
    IN  <<SubSeq(s, 1, c - 1), SubSeq(s, c + 1, Len(s))>>

\* the concatenation of ss[1], ss[2], ... (a loop that extends a list per element)
Flatten(ss) ==
    LET f[i \in 0..Len(ss)] == IF i = 0 THEN <<>> ELSE f[i - 1] \o ss[i]
    IN  f[Len(ss)]

\* s[:n]
Take(s, n) == SubSeq(s, 1, IF Len(s) < n THEN Len(s) ELSE n)

\* re.search(".*" + ip + ".*", s): in the pattern every "." of ip matches any character
RegexContains(s, ip) ==
    \E off \in 0..(Len(s) - Len(ip)) :
        \A j \in 1..Len(ip) :
            SubSeq(ip, j, j) = "." \/ SubSeq(ip, j, j) = SubSeq(s, off + j, off + j)

(***************************************************************************)
(* The Prometheus server, as the generator sees it through requests.get.   *)
(*   names_call / inst_call : outcome of the two label-values calls        *)
(*   names, instances       : their "data" when the call answers 200       *)
(*   probe[i][m]            : outcome of the instant query m{instance="i"} *)
(*   uname, host            : series of node_uname_info and of host        *)
(*   disks, mounts, devices : outcome of the three label queries of the    *)
(*                            target builders, per instance                *)
(* A query outcome is None (the call raised, answered non-200 or a         *)
(* non-success envelope) or the list of series; it is written as a record  *)
(* [failed, items], None being QueryFailed.                                *)
(***************************************************************************)
None == "None"
QueryFailed == [failed |-> TRUE, items |-> <<>>]
Result(items) == [failed |-> FALSE, items |-> items]

CallOutcomes == {"ok", "http_error", "raise"}
ProbeOutcomes == {"series", "empty", "failed"}

\* _query_metric of f'{metric}{{instance="{instance}"}}': None, [] or a non-empty list
ProbeResult(P, metric, instance) ==
    IF instance \notin DOMAIN P.probe \/ metric \notin DOMAIN P.probe[instance]
    THEN Result(<<>>)
    ELSE CASE P.probe[instance][metric] = "failed" -> QueryFailed
           [] P.probe[instance][metric] = "empty"  -> Result(<<>>)
           [] OTHER -> Result(<<[instance |-> instance]>>)

\* a test that takes None for a result
TruthyOrNone(result) == result.failed \/ result.items # <<>>

\* `if result:` (None and [] are both falsy)
Truthy(result) == ~result.failed /\ result.items # <<>>

\* _query_metric of f'{metric}{{instance=~".*{ip}.*"}}' for the two hostname metrics
HostnameQuery(P, metric, ip) ==
    LET all == IF metric = "node_uname_info" THEN P.uname ELSE P.host
    IN  IF all.failed THEN QueryFailed
        ELSE Result(SelectSeq(all.items, LAMBDA sr : RegexContains(sr.instance, ip)))

(***************************************************************************)
(* ScryptedDashboardGenerator: discovery                                   *)
(***************************************************************************)
NoHardware ==
    [nvidia_gpu |-> FALSE, intel_gpu |-> FALSE, intel_npu |-> FALSE, mac |-> FALSE,
     node_exporter |-> FALSE, telegraf |-> FALSE, has_temp |-> FALSE,
     has_power |-> FALSE, has_process |-> FALSE]

\* NodeInfo(hostname, ip, port): metrics and hardware start empty; every reader of
\* hardware uses .get, for which the empty dict reads as all-false
NodeInfo(instance, hostname, ip, port) ==
    [instance |-> instance, hostname |-> hostname, ip |-> ip, port |-> port,
     metrics |-> {}, hardware |-> NoHardware]

\* ScryptedDashboardGenerator(prometheus_url)
NewGenerator(url) ==
    [prometheus_url |-> url, nodes |-> <<>>, all_metrics |-> {},
     panel_id |-> 1, current_y |-> 0]

\* the catalog taken from the listing whatever became of the call
DiscoverMetricsUnchecked(g, P) == [g EXCEPT !.all_metrics = P.names]

DiscoverMetrics(g, P) ==
    IF P.names_call = "ok" THEN [g EXCEPT !.all_metrics = P.names] ELSE g

\* the first nodename / host label of the result items, "" when no item has one
FirstHostLabel(result) ==
    LET named == SelectSeq(result, LAMBDA sr : sr.nodename # "" \/ sr.host # "")
    IN  IF named = <<>> THEN ""
        ELSE IF named[1].nodename # "" THEN named[1].nodename ELSE named[1].host

\* one round of the loop of _get_hostname_for_ip: the label found through `metric`,
\* "" when the loop goes on
HostnameFrom(g, P, metric, ip) ==
    IF metric \in g.all_metrics /\ Truthy(HostnameQuery(P, metric, ip))
    THEN FirstHostLabel(HostnameQuery(P, metric, ip).items)
    ELSE ""

\* `a or b` for strings
OrElse(a, b) == IF a # "" THEN a ELSE b

\* _get_hostname_for_ip: None is written ""
GetHostnameForIp(g, P, ip) ==
    OrElse(HostnameFrom(g, P, "node_uname_info", ip), HostnameFrom(g, P, "host", ip))

\* self.nodes[instance] = node: a key already present keeps its place
PutNode(nodes, node) ==
    IF \E i \in 1..Len(nodes) : nodes[i].instance = node.instance
    THEN [i \in 1..Len(nodes) |->
             IF nodes[i].instance = node.instance THEN node ELSE nodes[i]]
    ELSE Append(nodes, node)

\* the body of the loop over the listed instances
IdentifyInstance(g, P, nodes, instance) ==
    IF Contains(instance, ":")
    THEN PutNode(nodes,
             NodeInfo(instance,
                      OrElse(GetHostnameForIp(g, P, RSplitColon(instance)[1]),
                             RSplitColon(instance)[1]),
                      RSplitColon(instance)[1], RSplitColon(instance)[2]))
    ELSE nodes

IdentifyNodes(g, P) ==
    IF P.inst_call # "ok" THEN g
    ELSE LET add[i \in 0..Len(P.instances)] ==
                 IF i = 0 THEN g.nodes
                 ELSE IdentifyInstance(g, P, add[i - 1], P.instances[i])
         IN  [g EXCEPT !.nodes = add[Len(P.instances)]]

\* the hardware dict with nvidia_gpu decided by the nvidia_ prefix alone
HardwareOfNvidiaPrefixOnly(ms) ==
    [nvidia_gpu    |-> \E m \in ms : StartsWith(m, "nvidia_"),
     intel_gpu     |-> \E m \in ms : Contains(m, "intel_gpu") \/ Contains(m, "igpu_"),
     intel_npu     |-> "intel_npu_usage_percent" \in ms,
     mac           |-> \E m \in ms : StartsWith(m, "mac_"),
     node_exporter |-> \E m \in ms : StartsWith(m, "node_"),
     telegraf      |-> \E m \in ms : StartsWithAny(m, {"cpu_", "disk_", "mem_"}),
     has_temp      |-> \E m \in ms : Contains(m, "temp"),
     has_power     |-> \E m \in ms : Contains(m, "power") \/ Contains(m, "watts"),
     has_process   |-> \E m \in ms : Contains(m, "process")]
\* the hardware dict of _detect_hardware
HardwareOf(ms) ==
    [nvidia_gpu    |-> \E m \in ms : StartsWithAny(m, {"nvidia_", "DCGM_"}),
     intel_gpu     |-> \E m \in ms : Contains(m, "intel_gpu") \/ Contains(m, "igpu_"),
     intel_npu     |-> "intel_npu_usage_percent" \in ms,
     mac           |-> \E m \in ms : StartsWith(m, "mac_"),
     node_exporter |-> \E m \in ms : StartsWith(m, "node_"),
     telegraf      |-> \E m \in ms : StartsWithAny(m, {"cpu_", "disk_", "mem_"}),
     has_temp      |-> \E m \in ms : Contains(m, "temp"),
     has_power     |-> \E m \in ms : Contains(m, "power") \/ Contains(m, "watts"),
     has_process   |-> \E m \in ms : Contains(m, "process")]

InstanceMetrics(g, P, instance) ==
    {m \in g.all_metrics : Truthy(ProbeResult(P, m, instance))}

\* node.metrics = instance_metrics; node.hardware = {...}
WithHardware(node, instance_metrics) ==
    [node EXCEPT !.metrics = instance_metrics, !.hardware = HardwareOf(instance_metrics)]

DetectHardware(g, P) ==
    [g EXCEPT !.nodes =
        [i \in 1..Len(g.nodes) |->
            WithHardware(g.nodes[i], InstanceMetrics(g, P, g.nodes[i].instance))]]


(***************************************************************************)
(* ScryptedDashboardGenerator: capability checks and target builders       *)
(***************************************************************************)
HasAnyGpu(g) ==
    \E i \in 1..Len(g.nodes) :
        \/ g.nodes[i].hardware.nvidia_gpu
        \/ g.nodes[i].hardware.intel_gpu
        \/ g.nodes[i].hardware.intel_npu
        \/ (g.nodes[i].hardware.mac /\ "mac_gpu_usage_percent" \in g.nodes[i].metrics)
HasTemperature(g) == \E i \in 1..Len(g.nodes) : g.nodes[i].hardware.has_temp
HasPower(g) == \E i \in 1..Len(g.nodes) : g.nodes[i].hardware.has_power
HasNpu(g) == \E i \in 1..Len(g.nodes) : g.nodes[i].hardware.intel_npu
HasDiskMetrics(g) == \E m \in g.all_metrics : Contains(m, "disk")
HasNetworkMetrics(g) ==
    \E m \in g.all_metrics : Contains(m, "network") \/ Contains(m, "net_")
HasProcessMetrics(g) == \E i \in 1..Len(g.nodes) : g.nodes[i].hardware.has_process

Target(expr, legend) == [expr |-> expr, legendFormat |-> legend]

\* f'{metric}{{instance="{instance}"}}'
Sel(metric, instance) == metric \o "{instance=\"" \o instance \o "\"}"

\* one target when the metric is among the node's metrics
IfMetric(n, metric, target) == IF metric \in n.metrics THEN <<target>> ELSE <<>>

BuildTemperatureTargets(g) ==
    Flatten([i_n \in 1..Len(g.nodes) |->
        LET n == g.nodes[i_n] IN
        IfMetric(n, "node_hwmon_temp_celsius",
            Target("node_hwmon_temp_celsius{instance=\"" \o n.instance
                       \o "\",sensor=\"temp1\"}",
                   n.hostname \o " CPU"))
        \o IfMetric(n, "mac_cpu_temperature_celsius",
            Target(Sel("mac_cpu_temperature_celsius", n.instance),
                   n.hostname \o " Mac CPU"))])

BuildPowerTargets(g) ==
    Flatten([i_n \in 1..Len(g.nodes) |->
        LET n == g.nodes[i_n] IN
        IfMetric(n, "mac_cpu_power_watts",
            Target(Sel("mac_cpu_power_watts", n.instance), n.hostname \o " CPU Power"))
        \o IfMetric(n, "mac_gpu_power_watts",
            Target(Sel("mac_gpu_power_watts", n.instance), n.hostname \o " GPU Power"))
        \o IfMetric(n, "mac_ane_power_watts",
            Target(Sel("mac_ane_power_watts", n.instance), n.hostname \o " ANE Power"))])

\* [m for m in node.metrics if "igpu_engines" in m or "intel_gpu" in m][:4] joined by
\* " or "; a set has no fixed iteration order, the model takes the names in the order
\* CHOOSE fixes
RECURSIVE SetToSeq(_)
SetToSeq(S) ==
    IF S = {} THEN <<>> ELSE LET x == CHOOSE y \in S : TRUE IN <<x>> \o SetToSeq(S \ {x})

RECURSIVE JoinOr(_)
JoinOr(parts) ==
    IF Len(parts) = 1 THEN parts[1] ELSE parts[1] \o " or " \o JoinOr(Tail(parts))

IntelGpuMetrics(n) ==
    SetToSeq({m \in n.metrics : Contains(m, "igpu_engines") \/ Contains(m, "intel_gpu")})

GpuTargetsOf(n) ==
    (IF n.hardware.nvidia_gpu
     THEN IfMetric(n, "DCGM_FI_DEV_GPU_UTIL",
              Target(Sel("DCGM_FI_DEV_GPU_UTIL", n.instance), n.hostname \o " NVIDIA GPU"))
     ELSE <<>>)
    \o (IF n.hardware.intel_gpu /\ IntelGpuMetrics(n) # <<>>
        THEN <<Target("max by (instance) ("
                        \o JoinOr([i \in 1..Len(Take(IntelGpuMetrics(n), 4)) |->
                                      Sel(IntelGpuMetrics(n)[i], n.instance)])
                        \o ")",
                      n.hostname \o " Intel GPU")>>
        ELSE <<>>)
    \o (IF n.hardware.intel_npu
        THEN <<Target(Sel("intel_npu_usage_percent", n.instance),
                      n.hostname \o " Intel NPU")>>
        ELSE <<>>)
    \o (IF n.hardware.mac
        THEN IfMetric(n, "mac_gpu_usage_percent",
                 Target(Sel("mac_gpu_usage_percent", n.instance), n.hostname \o " Mac GPU"))
             \o IfMetric(n, "mac_ane_usage_percent",
                 Target(Sel("mac_ane_usage_percent", n.instance),
                        n.hostname \o " Neural Engine"))
        ELSE <<>>)

BuildGpuTargets(g) == Flatten([i \in 1..Len(g.nodes) |-> GpuTargetsOf(g.nodes[i])])

\* the CPU query with the counter of node_exporter preferred to cpu_usage_idle
CpuTargetsOfRateFirst(n) ==
    IF "node_cpu_seconds_total" \in n.metrics
    THEN <<Target("100 - (avg by(instance) (rate(node_cpu_seconds_total{mode=\"idle\",instance=\""
                      \o n.instance \o "\"}[5m])) * 100)",
                  n.hostname \o " CPU")>>
    ELSE IF "cpu_usage_idle" \in n.metrics
    THEN <<Target("100 - cpu_usage_idle{cpu=\"cpu-total\",instance=\"" \o n.instance \o "\"}",
                  n.hostname \o " CPU")>>
    ELSE IF n.hardware.mac /\ "mac_pcpu_usage_percent" \in n.metrics
    THEN <<Target("(" \o Sel("mac_pcpu_usage_percent", n.instance) \o " + "
                      \o Sel("mac_ecpu_usage_percent", n.instance) \o ") / 2",
                  n.hostname \o " Mac CPU")>>
    ELSE <<>>
CpuTargetsOf(n) ==
    IF "cpu_usage_idle" \in n.metrics
    THEN <<Target("100 - cpu_usage_idle{cpu=\"cpu-total\",instance=\"" \o n.instance \o "\"}",
                  n.hostname \o " CPU")>>
    ELSE IF "node_cpu_seconds_total" \in n.metrics
    THEN <<Target("100 - (avg by(instance) (rate(node_cpu_seconds_total{mode=\"idle\",instance=\""
                      \o n.instance \o "\"}[5m])) * 100)",
                  n.hostname \o " CPU")>>
    ELSE IF n.hardware.mac /\ "mac_pcpu_usage_percent" \in n.metrics
    THEN <<Target("(" \o Sel("mac_pcpu_usage_percent", n.instance) \o " + "
                      \o Sel("mac_ecpu_usage_percent", n.instance) \o ") / 2",
                  n.hostname \o " Mac CPU")>>
    ELSE <<>>

BuildCpuTargets(g) == Flatten([i \in 1..Len(g.nodes) |-> CpuTargetsOf(g.nodes[i])])

\* the memory query without the node_memory_MemAvailable_bytes branch
MemoryTargetsOfUsedPercentOnly(n) ==
    IF "mem_used_percent" \in n.metrics
    THEN <<Target(Sel("mem_used_percent", n.instance), n.hostname \o " Memory")>>
    ELSE <<>>
MemoryTargetsOf(n) ==
    IF "node_memory_MemAvailable_bytes" \in n.metrics
    THEN <<Target("(1 - (" \o Sel("node_memory_MemAvailable_bytes", n.instance) \o " / "
                      \o Sel("node_memory_MemTotal_bytes", n.instance) \o ")) * 100",
                  n.hostname \o " Memory")>>
    ELSE IF "mem_used_percent" \in n.metrics
    THEN <<Target(Sel("mem_used_percent", n.instance), n.hostname \o " Memory")>>
    ELSE <<>>

BuildMemoryTargets(g) == Flatten([i \in 1..Len(g.nodes) |-> MemoryTargetsOf(g.nodes[i])])

\* a label query of a target builder: None or the label values of the result items
LabelQuery(world, instance) ==
    IF instance \in DOMAIN world THEN world[instance] ELSE Result(<<>>)

BuildDiskIoTargets(g, P) ==
    Flatten([i_n \in 1..Len(g.nodes) |->
        LET n == g.nodes[i_n] IN
        IF "diskio_read_bytes" \in n.metrics /\ Truthy(LabelQuery(P.disks, n.instance))
        THEN Flatten([i_disk_name \in 1..Len(LabelQuery(P.disks, n.instance).items) |->
        LET disk_name == LabelQuery(P.disks, n.instance).items[i_disk_name] IN
        IF disk_name # "" /\ ~StartsWith(disk_name, "loop")
                 THEN <<Target("rate(diskio_read_bytes{instance=\"" \o n.instance
                                   \o "\",name=\"" \o disk_name \o "\"}[5m])",
                               n.hostname \o " " \o disk_name \o " Read"),
                        Target("rate(diskio_write_bytes{instance=\"" \o n.instance
                                   \o "\",name=\"" \o disk_name \o "\"}[5m])",
                               n.hostname \o " " \o disk_name \o " Write")>>
                 ELSE <<>>])
        ELSE <<>>])

MainMounts == {"/", "/home", "/var", "/mnt"}
MaxDiskUsageTargets == 6

\* the disk usage queries without the limit of six
BuildDiskUsageTargetsUncapped(g, P) ==
    Flatten([i_n \in 1..Len(g.nodes) |->
        LET n == g.nodes[i_n] IN
        IF "node_filesystem_size_bytes" \in n.metrics
               /\ Truthy(LabelQuery(P.mounts, n.instance))
            THEN Flatten([i_mount \in 1..Len(LabelQuery(P.mounts, n.instance).items) |->
        LET mount == LabelQuery(P.mounts, n.instance).items[i_mount] IN
        IF mount # "" /\ mount \in MainMounts
                     THEN <<Target("(1 - node_filesystem_avail_bytes{instance=\""
                                       \o n.instance \o "\",mountpoint=\"" \o mount
                                       \o "\"} / node_filesystem_size_bytes{instance=\""
                                       \o n.instance \o "\",mountpoint=\"" \o mount
                                       \o "\"}) * 100",
                                   n.hostname \o " " \o mount)>>
                     ELSE <<>>])
            ELSE <<>>])
BuildDiskUsageTargets(g, P) ==
    Take(Flatten([i_n \in 1..Len(g.nodes) |->
        LET n == g.nodes[i_n] IN
        IF "node_filesystem_size_bytes" \in n.metrics
               /\ Truthy(LabelQuery(P.mounts, n.instance))
            THEN Flatten([i_mount \in 1..Len(LabelQuery(P.mounts, n.instance).items) |->
        LET mount == LabelQuery(P.mounts, n.instance).items[i_mount] IN
        IF mount # "" /\ mount \in MainMounts
                     THEN <<Target("(1 - node_filesystem_avail_bytes{instance=\""
                                       \o n.instance \o "\",mountpoint=\"" \o mount
                                       \o "\"} / node_filesystem_size_bytes{instance=\""
                                       \o n.instance \o "\",mountpoint=\"" \o mount
                                       \o "\"}) * 100",
                                   n.hostname \o " " \o mount)>>
                     ELSE <<>>])
            ELSE <<>>]),
         MaxDiskUsageTargets)

\* the devices that are no loopback, docker or veth interface; the loop breaks at the first
MainDevices(devices) ==
    SelectSeq(devices, LAMBDA device :
        device # "" /\ ~StartsWithAny(device, {"lo", "docker", "veth"}))

BuildNetworkTargets(g, P) ==
    Flatten([i_n \in 1..Len(g.nodes) |->
        LET n == g.nodes[i_n] IN
        IF "node_network_receive_bytes_total" \in n.metrics
           /\ Truthy(LabelQuery(P.devices, n.instance))
           /\ MainDevices(LabelQuery(P.devices, n.instance).items) # <<>>
        THEN LET device == MainDevices(LabelQuery(P.devices, n.instance).items)[1]
             IN  <<Target("rate(node_network_receive_bytes_total{instance=\"" \o n.instance
                              \o "\",device=\"" \o device \o "\"}[5m])",
                          n.hostname \o " " \o device \o " RX"),
                   Target("rate(node_network_transmit_bytes_total{instance=\"" \o n.instance
                              \o "\",device=\"" \o device \o "\"}[5m])",
                          n.hostname \o " " \o device \o " TX")>>
        ELSE <<>>])

BuildProcessTargets ==
    <<[expr |-> "topk(10, top_process_cpu_percent)", format |-> "table"],
      [expr |-> "topk(10, top_process_memory_percent)", format |-> "table"]>>


(***************************************************************************)
(* ScryptedDashboardGenerator: panels and layout                           *)
(* A building step maps a build state [g, panels] to the next one; g       *)
(* carries panel_id and current_y.  A panel keeps the keys the facade and  *)
(* the layout read: id, title, type, datasource uid, gridPos, targets.     *)
(***************************************************************************)
TitleOverview == ":target: System Overview"
TitleGpuRow == ":rocket: GPU & Accelerators"
TitleCpuRow == ":laptop: CPU & Memory"
TitleStorageRow == ":floppy: Storage"
TitleNetworkRow == ":globe: Network"
TitleProcessRow == ":chart: Processes"

GridPos(h, w, x, y) == [h |-> h, w |-> w, x |-> x, y |-> y]

\* a dict with keys id, title, type, datasource, gridPos, targets
Panel(id, title, type, gridPos, targets) ==
    [id |-> id, title |-> title, type |-> type, datasource |-> "prometheus-uid",
     gridPos |-> gridPos, targets |-> targets]

\* a template returns the panel and leaves the generator as its code leaves it
CpuPanelTemplate(g, title, targets, gridPos) ==
    [g |-> g, panel |-> Panel(g.panel_id, title, "timeseries", gridPos, targets)]

GpuPanelTemplate(g, title, targets, gridPos) == CpuPanelTemplate(g, title, targets, gridPos)

MemoryPanelTemplate(g, title, targets, gridPos) ==
    CpuPanelTemplate(g, title, targets, gridPos)

\* self.panel_id += 1, then "id": self.panel_id - 1
CountingTemplate(g, title, type, targets, gridPos) ==
    LET g1 == [g EXCEPT !.panel_id = @ + 1]
    IN  [g |-> g1, panel |-> Panel(g1.panel_id - 1, title, type, gridPos, targets)]

TemperaturePanelTemplate(g, title, targets, gridPos) ==
    CountingTemplate(g, title, "bargauge", targets, gridPos)

PowerPanelTemplate(g, title, targets, gridPos) ==
    CountingTemplate(g, title, "bargauge", targets, gridPos)

DiskPanelTemplate(g, title, targets, gridPos) ==
    CountingTemplate(g, title, "timeseries", targets, gridPos)

NetworkPanelTemplate(g, title, targets, gridPos) ==
    DiskPanelTemplate(g, title, targets, gridPos)

ProcessPanelTemplate(g, title, targets, gridPos) ==
    CountingTemplate(g, title, "table", targets, gridPos)

\* dashboard["panels"].append(template(...))
AppendTemplate(b, made) == [g |-> made.g, panels |-> Append(b.panels, made.panel)]

\* a panel written as a dict literal, followed by self.panel_id += 1
AppendLiteral(b, title, type, gridPos, targets) ==
    [g |-> [b.g EXCEPT !.panel_id = @ + 1],
     panels |-> Append(b.panels, Panel(b.g.panel_id, title, type, gridPos, targets))]

AdvanceY(b, dy) == [b EXCEPT !.g.current_y = @ + dy]

\* a row separator has no datasource and no targets
AddRow(b, title) ==
    [g |-> [b.g EXCEPT !.panel_id = @ + 1, !.current_y = @ + 1],
     panels |-> Append(b.panels,
                    [id |-> b.g.panel_id, title |-> title, type |-> "row",
                     datasource |-> None,
                     gridPos |-> GridPos(1, 24, 0, b.g.current_y), targets |-> <<>>])]

OverviewPanelWidth == 6

\* _add_overview_panels works on o = [b, x_pos, y]: the build state, the local x_pos
\* and the row's y
OverviewTemperature(o) ==
    LET targets == BuildTemperatureTargets(o.b.g)
    IN  IF HasTemperature(o.b.g) /\ targets # <<>>
        THEN [o EXCEPT
                 !.b = AppendTemplate(o.b,
                           TemperaturePanelTemplate(o.b.g, ":thermo: Temperatures", targets,
                               GridPos(5, OverviewPanelWidth, o.x_pos, o.b.g.current_y))),
                 !.x_pos = @ + OverviewPanelWidth]
        ELSE o

OverviewPower(o) ==
    LET targets == BuildPowerTargets(o.b.g)
    IN  IF HasPower(o.b.g) /\ targets # <<>>
        THEN [o EXCEPT
                 !.b = AppendTemplate(o.b,
                           PowerPanelTemplate(o.b.g, ":zap: Power Usage", targets,
                               GridPos(5, OverviewPanelWidth, o.x_pos, o.b.g.current_y))),
                 !.x_pos = @ + OverviewPanelWidth]
        ELSE o

OverviewNpu(o) ==
    IF HasNpu(o.b.g)
    THEN [o EXCEPT
             !.b = AppendLiteral(o.b, ":brain: NPU Usage", "bargauge",
                       GridPos(5, OverviewPanelWidth, o.x_pos, o.b.g.current_y),
                       <<Target("intel_npu_usage_percent", "Intel NPU")>>),
             !.x_pos = @ + OverviewPanelWidth]
    ELSE o

\* the cursor moved past the overview whether or not a stat panel was added
OverviewAdvanceAlways(o) == AdvanceY(o.b, 6)
\* if x_pos > 0: self.current_y += 6
OverviewAdvance(o) == IF o.x_pos > 0 THEN AdvanceY(o.b, 6) ELSE o.b

AddOverviewPanels(b) ==
    OverviewAdvance(OverviewNpu(OverviewPower(OverviewTemperature([b |-> b, x_pos |-> 0]))))

AddGpuPanels(b) ==
    LET targets == BuildGpuTargets(b.g)
    IN  IF targets # <<>>
        THEN AdvanceY(AppendTemplate(b,
                 GpuPanelTemplate(b.g, "GPU & Accelerator Utilization", targets,
                     GridPos(10, 24, 0, b.g.current_y))), 11)
        ELSE b

AddCpuPanel(b) ==
    LET targets == BuildCpuTargets(b.g)
    IN  IF targets # <<>>
        THEN AppendTemplate(b,
                 CpuPanelTemplate(b.g, "CPU Utilization", targets,
                     GridPos(10, 12, 0, b.g.current_y)))
        ELSE b

AddMemoryPanel(b) ==
    LET targets == BuildMemoryTargets(b.g)
    IN  IF targets # <<>>
        THEN AppendTemplate(b,
                 MemoryPanelTemplate(b.g, "Memory Usage", targets,
                     GridPos(10, 12, 12, b.g.current_y)))
        ELSE b

\* the section without its closing self.current_y += 11
AddCpuMemoryPanelsNoAdvance(b) == AddMemoryPanel(AddCpuPanel(b))

AddCpuMemoryPanels(b) == AdvanceY(AddMemoryPanel(AddCpuPanel(b)), 11)

AddDiskIoPanel(b, P) ==
    LET targets == BuildDiskIoTargets(b.g, P)
    IN  IF targets # <<>>
        THEN AppendTemplate(b,
                 DiskPanelTemplate(b.g, ":floppy: Disk I/O", targets,
                     GridPos(10, 12, 0, b.g.current_y)))
        ELSE b

AddDiskUsagePanel(b, P) ==
    LET targets == BuildDiskUsageTargets(b.g, P)
    IN  IF targets # <<>>
        THEN AppendLiteral(b, ":chart: Disk Usage", "bargauge",
                 GridPos(10, 12, 12, b.g.current_y), targets)
        ELSE b

AddDiskPanels(b, P) == AdvanceY(AddDiskUsagePanel(AddDiskIoPanel(b, P), P), 11)

AddNetworkPanels(b, P) ==
    LET targets == BuildNetworkTargets(b.g, P)
    IN  IF targets # <<>>
        THEN AdvanceY(AppendTemplate(b,
                 NetworkPanelTemplate(b.g, ":globe: Network Traffic", targets,
                     GridPos(10, 24, 0, b.g.current_y))), 11)
        ELSE b

AddProcessPanels(b) ==
    IF BuildProcessTargets # <<>>
    THEN AdvanceY(AppendTemplate(b,
             ProcessPanelTemplate(b.g, ":fire: Top Processes", BuildProcessTargets,
                 GridPos(12, 24, 0, b.g.current_y))), 13)
    ELSE b

\* the sections of _build_smart_dashboard, each on the build state the one before left
SectionOverview(b) == AddOverviewPanels(AddRow(b, TitleOverview))
SectionGpu(b) == IF HasAnyGpu(b.g) THEN AddGpuPanels(AddRow(b, TitleGpuRow)) ELSE b
SectionCpuMemory(b) == AddCpuMemoryPanels(AddRow(b, TitleCpuRow))
SectionStorage(b, P) ==
    IF HasDiskMetrics(b.g) THEN AddDiskPanels(AddRow(b, TitleStorageRow), P) ELSE b
SectionNetwork(b, P) ==
    IF HasNetworkMetrics(b.g) THEN AddNetworkPanels(AddRow(b, TitleNetworkRow), P) ELSE b
SectionProcesses(b) ==
    IF HasProcessMetrics(b.g) THEN AddProcessPanels(AddRow(b, TitleProcessRow)) ELSE b

\* _build_smart_dashboard with the Network section built before the Storage section
BuildSmartDashboardNetworkFirst(g, P) ==
    SectionProcesses(
        SectionStorage(
            SectionNetwork(
                SectionCpuMemory(SectionGpu(SectionOverview([g |-> g, panels |-> <<>>]))),
                P),
            P))
\* _build_smart_dashboard: the build state [g, panels] after the last section
BuildSmartDashboard(g, P) ==
    SectionProcesses(
        SectionNetwork(
            SectionStorage(
                SectionCpuMemory(SectionGpu(SectionOverview([g |-> g, panels |-> <<>>]))),
                P),
            P))

\* discover_all: the four steps in order
DiscoverAll(g, P) ==
    BuildSmartDashboard(DetectHardware(IdentifyNodes(DiscoverMetrics(g, P), P), P), P)

(***************************************************************************)
(* REST facade: generate                                                   *)
(***************************************************************************)
\* if "datasource" in panel: panel["datasource"]["uid"] = options["datasource_uid"]
SetDatasource(panels, uid) ==
    [i \in 1..Len(panels) |->
        IF panels[i].datasource # None THEN [panels[i] EXCEPT !.datasource = uid]
        ELSE panels[i]]

TitleHasAny(p, keywords) == \E k \in keywords : Contains(p.title, k)

GpuKeywords == {"GPU", "Accelerator"}
ProcessKeywords == {"Process"}
DiskKeywords == {"Disk", "Storage"}
NetworkKeywords == {"Network"}

\* one filter: the list is rebuilt without the panels of a disabled category
FilterCategory(panels, include, keywords) ==
    IF include THEN panels ELSE SelectSeq(panels, LAMBDA p : ~TitleHasAny(p, keywords))

\* the four filters with the disk filter left out
FilterPanelsNoDisk(panels, options) ==
    FilterCategory(
        FilterCategory(
            FilterCategory(panels, options.include_gpu, GpuKeywords),
            options.include_processes, ProcessKeywords),
        options.include_network, NetworkKeywords)

FilterPanels(panels, options) ==
    FilterCategory(
        FilterCategory(
            FilterCategory(
                FilterCategory(panels, options.include_gpu, GpuKeywords),
                options.include_processes, ProcessKeywords),
            options.include_disk, DiskKeywords),
        options.include_network, NetworkKeywords)

\* the success response of generate for the panels built by discover_all
GenerateResponse(panels, options) ==
    LET final == FilterPanels(SetDatasource(panels, options.datasource_uid), options)
    IN  [status |-> "success", code |-> 200,
         dashboard |-> [title |-> options.name, refresh |-> options.refresh_interval,
                        uid |-> options.uid, panels |-> final],
         panel_count |-> Len(final),
         options_applied |-> options]


(***************************************************************************)
(* The Prometheus servers the model is checked against                     *)
(***************************************************************************)
\* metric names that decide which sections and panels a dashboard has
MetricUniverse ==
    {"node_hwmon_temp_celsius", "mac_cpu_power_watts", "intel_npu_usage_percent",
     "DCGM_FI_DEV_GPU_UTIL", "nvidia_smi_temperature_gpu", "mac_gpu_usage_percent",
     "node_cpu_seconds_total", "diskio_read_bytes", "node_filesystem_size_bytes",
     "node_network_receive_bytes_total", "top_process_cpu_percent"}

\* the sources of the CPU and memory queries
CpuMemoryMetrics ==
    {"cpu_usage_idle", "node_cpu_seconds_total", "mac_pcpu_usage_percent",
     "node_memory_MemAvailable_bytes", "mem_used_percent"}

\* largest catalog drawn from MetricUniverse
MaxCatalog == 2

Catalogs == {c \in SUBSET MetricUniverse : Cardinality(c) <= MaxCatalog}

InstA == "10.0.0.5:9100"
InstB == "10.0.0.50:9100"
PromUrl == "http://localhost:9090"

\* instance listings: none, one node, two nodes, and a name without a port
InstanceLists == {<<>>, <<InstA>>, <<InstA, InstB>>, <<"localhost", InstB>>}

SeqRange(s) == {s[i] : i \in 1..Len(s)}

\* the listed instances that name a port
Ported(L) == {i \in SeqRange(L) : Contains(i, ":")}

UnameSeries == Result(<<[instance |-> InstA, nodename |-> "alpha", host |-> ""]>>)
HostSeries == Result(<<[instance |-> InstB, nodename |-> "", host |-> "beta"]>>)

\* label values the three label queries answer with, for every instance
RichLabels ==
    [disks   |-> [i \in {InstA, InstB} |-> Result(<<"loop0", "sda">>)],
     mounts  |-> [i \in {InstA, InstB} |-> Result(<<"/", "/boot", "/home", "/var", "/mnt">>)],
     devices |-> [i \in {InstA, InstB} |-> Result(<<"lo", "eth0", "eth1">>)]]
SkippedLabels ==
    [disks   |-> [i \in {InstA, InstB} |-> Result(<<"loop0", "">>)],
     mounts  |-> [i \in {InstA, InstB} |-> Result(<<"/boot">>)],
     devices |-> [i \in {InstA, InstB} |-> Result(<<"lo", "docker0", "veth1">>)]]
FailedLabels ==
    [disks   |-> [i \in {InstA, InstB} |-> QueryFailed],
     mounts  |-> [i \in {InstA, InstB} |-> QueryFailed],
     devices |-> [i \in {InstA, InstB} |-> QueryFailed]]

LabelMetrics ==
    {"diskio_read_bytes", "node_filesystem_size_bytes", "node_network_receive_bytes_total"}

\* the label queries are only sent for a catalog that holds their metric
LabelWorldsFor(c) ==
    IF c \cap LabelMetrics = {} THEN {RichLabels}
    ELSE {RichLabels, SkippedLabels, FailedLabels}

MakeWorld(c, names_call, L, inst_call, probe, labels) ==
    [url |-> PromUrl, names_call |-> names_call, names |-> c,
     inst_call |-> inst_call, instances |-> L, probe |-> probe,
     uname |-> UnameSeries, host |-> HostSeries,
     disks |-> labels.disks, mounts |-> labels.mounts, devices |-> labels.devices]

\* what the presence probes of the ported instances answer: the first instance exports
\* any part of the catalog; a second one all of it, none of it, or the rest of it
ProbeWorlds(L, c) ==
    {pr \in [Ported(L) -> [c -> {"series", "empty"}]] :
        Cardinality(Ported(L)) = 2 =>
            \/ \A m \in c : pr[InstB][m] = "series"
            \/ \A m \in c : pr[InstB][m] = "empty"
            \/ \A m \in c : pr[InstB][m] # pr[InstA][m]}

\* every catalog of at most MaxCatalog names, every listing, every way the names are
\* spread over the listed instances; all calls answer
IsBoundedWorld(P) ==
    \E c \in Catalogs, L \in InstanceLists :
        \E pr \in ProbeWorlds(L, c), lab \in LabelWorldsFor(c) :
            P = MakeWorld(c, "ok", L, "ok", pr, lab)

\* a node-exporter host and a Mac, with every section of the dashboard present
FullCatalog ==
    {"node_hwmon_temp_celsius", "mac_cpu_power_watts", "intel_npu_usage_percent",
     "DCGM_FI_DEV_GPU_UTIL", "mac_gpu_usage_percent", "node_cpu_seconds_total",
     "mac_pcpu_usage_percent", "node_memory_MemAvailable_bytes", "node_memory_MemTotal_bytes",
     "igpu_engines_render_busy", "diskio_read_bytes", "node_filesystem_size_bytes",
     "node_network_receive_bytes_total", "top_process_cpu_percent", "node_uname_info",
     "host"}

FullProbe ==
    [i \in {InstA, InstB} |->
        [m \in FullCatalog |->
            IF (i = InstB) = StartsWith(m, "mac_") THEN "series" ELSE "empty"]]

\* the catalog of the end-to-end scenario, on the single instance 10.0.0.5:9100
ScenarioCatalog ==
    {"node_cpu_seconds_total", "node_memory_MemAvailable_bytes", "node_memory_MemTotal_bytes"}

ScenarioWorlds ==
    {MakeWorld(FullCatalog, "ok", <<InstA, InstB>>, "ok", FullProbe, lab) :
        lab \in {RichLabels, SkippedLabels, FailedLabels}}
    \cup {MakeWorld(ScenarioCatalog, "ok", <<InstA>>, "ok",
                    [i \in {InstA} |-> [m \in ScenarioCatalog |-> "series"]], RichLabels)}
    \cup {MakeWorld(CpuMemoryMetrics, "ok", <<InstA>>, "ok", [i \in {InstA} |-> pr], RichLabels) :
            pr \in [CpuMemoryMetrics -> {"series", "empty"}]}

\* the scenario servers with each of the two listing calls failing, and with single
\* presence probes failing
FailureWorlds ==
    {MakeWorld(FullCatalog, nc, <<InstA, InstB>>, ic, FullProbe, RichLabels) :
        nc \in CallOutcomes, ic \in CallOutcomes}
    \cup {MakeWorld(ScenarioCatalog, "ok", <<InstA>>, "ok", [i \in {InstA} |-> pr], RichLabels) :
            pr \in [ScenarioCatalog -> ProbeOutcomes]}

\* the two-node scenario server with the hostname queries failing or finding no series
HostnameFailureWorlds ==
    {[MakeWorld(FullCatalog, "ok", <<InstA, InstB>>, "ok", FullProbe, RichLabels)
         EXCEPT !.uname = u, !.host = h] :
        u \in {QueryFailed, Result(<<>>), UnameSeries},
        h \in {QueryFailed, Result(<<>>), HostSeries}}

\* listings with an instance that has colons before the one that opens its port
InstV6 == "[fe80::1]:9100"
LastColonWorlds ==
    {MakeWorld(ScenarioCatalog, "ok", L, "ok",
               [i \in {InstV6} |-> [m \in ScenarioCatalog |-> "series"]], RichLabels) :
        L \in {<<InstV6>>, <<"gateway", InstV6, InstA>>}}

\* two hosts that both report their filesystems: eight main filesystems, or five
FilesystemCatalog ==
    {"diskio_read_bytes", "node_filesystem_size_bytes", "top_process_cpu_percent"}
FilesystemWorlds ==
    {[MakeWorld(FilesystemCatalog, "ok", <<InstA, InstB>>, "ok",
                [i \in {InstA, InstB} |-> [m \in FilesystemCatalog |-> "series"]], RichLabels)
         EXCEPT !.mounts[InstA] = first] :
        first \in {Result(<<"/", "/boot", "/home", "/var", "/mnt">>), Result(<<"/boot", "/">>)}}

IsGenWorld(P) ==
    \/ IsBoundedWorld(P)
    \/ P \in ScenarioWorlds \cup FailureWorlds \cup HostnameFailureWorlds \cup LastColonWorlds
    \/ P \in FilesystemWorlds

(***************************************************************************)
(* Responses of the facade                                                 *)
(***************************************************************************)
NoResponse == [status |-> "none"]

\* the response of a handler's `except Exception` clause
ExceptionResponseNoTrace(message) ==
    [code |-> 500, status |-> "error", error |-> message]
ExceptionResponse(message) ==
    [code |-> 500, status |-> "error", error |-> message,
     traceback |-> "Traceback (most recent call last): ..."]

\* what request.json raises for a body that is no JSON, and what data.get raises for a
\* JSON body that is no object
BadBody == "400 Bad Request: Failed to decode JSON object"

(***************************************************************************)
(* The import handler of the facade                                        *)
(***************************************************************************)
\* an optional value (dict.get without default): <<>> is None, <<v>> is v
Absent == <<>>
Some(v) == <<v>>

\* JSON values a request may carry as its dashboard
JsonObject(fields) == [kind |-> "object", fields |-> fields]
JsonString == [kind |-> "string", fields |-> <<>>]

\* `not api_key`: None and the empty string
NoKey(api_key) == api_key = Absent \/ api_key[1] = ""

\* `not dashboard`: None and the empty object
NoDashboard(dashboard) ==
    dashboard = Absent \/ (dashboard[1].kind = "object" /\ DOMAIN dashboard[1].fields = {})

GrafanaUrl == "http://localhost:3000"

\* dashboard.get('uid', 'unknown'); a JSON string has no get and raises
DashboardUid(dashboard) ==
    IF "uid" \in DOMAIN dashboard.fields THEN dashboard.fields.uid ELSE "unknown"

ImportKeys == {Absent, Some(""), Some("glsa_key")}
ImportDashboards ==
    {Absent, Some(JsonObject(<<>>)), Some(JsonObject([title |-> "Home lab"])),
     Some(JsonObject([title |-> "Home lab", uid |-> "scrypted-auto"])), Some(JsonString)}
ImportRequests ==
    [malformed : BOOLEAN, grafana_url : {GrafanaUrl, "http://grafana.lan:3000"},
     api_key : ImportKeys, dashboard : ImportDashboards]

\* what Grafana does with the POST: the connection fails, or it answers with a status
\* and a body that is JSON or not
GrafanaAnswers ==
    {[raised |-> TRUE, status_code |-> 0, json_ok |-> FALSE, text |-> ""],
     [raised |-> FALSE, status_code |-> 200, json_ok |-> TRUE, text |-> "{\"status\":\"success\"}"],
     [raised |-> FALSE, status_code |-> 200, json_ok |-> FALSE, text |-> "<html>login</html>"],
     [raised |-> FALSE, status_code |-> 401, json_ok |-> TRUE, text |-> "{\"message\":\"Unauthorized\"}"],
     [raised |-> FALSE, status_code |-> 412, json_ok |-> TRUE, text |-> "{\"status\":\"version-mismatch\"}"]}
NoAnswer == [raised |-> FALSE, status_code |-> 0, json_ok |-> FALSE, text |-> ""]

\* the 400 response of a missing required field, None when both fields are given
ImportRejectionKeyOnly(req) ==
    IF NoKey(req.api_key)
    THEN Some([code |-> 400, status |-> "error", error |-> "API key required for import"])
    ELSE Absent
ImportRejection(req) ==
    IF NoKey(req.api_key)
    THEN Some([code |-> 400, status |-> "error", error |-> "API key required for import"])
    ELSE IF NoDashboard(req.dashboard)
    THEN Some([code |-> 400, status |-> "error", error |-> "Dashboard JSON required"])
    ELSE Absent

\* requests.post(f"{grafana_url}/api/dashboards/db", headers=..., json=...)
ImportCall(req) ==
    [method |-> "POST", url |-> req.grafana_url \o "/api/dashboards/db",
     authorization |-> IF req.api_key = Absent THEN "Bearer None"
                       ELSE "Bearer " \o req.api_key[1],
     dashboard |-> req.dashboard, overwrite |-> TRUE]

\* the response of the handler to Grafana's answer
ImportResponse(req, answer) ==
    IF answer.raised THEN ExceptionResponse("Connection refused")
    ELSE IF answer.status_code = 200
    THEN IF ~answer.json_ok THEN ExceptionResponse("Expecting value: line 1 column 1 (char 0)")
         ELSE IF req.dashboard = Absent \/ req.dashboard[1].kind # "object"
         THEN ExceptionResponse("object has no attribute 'get'")
         ELSE [code |-> 200, status |-> "success", grafana_response |-> answer.text,
               url |-> req.grafana_url \o "/d/" \o DashboardUid(req.dashboard[1])]
    ELSE [code |-> 500, status |-> "error",
          error |-> "Grafana returned " \o ToString(answer.status_code),
          response |-> answer.text]

ImpIdle ==
    [pc |-> "off", req |-> [malformed |-> FALSE, grafana_url |-> GrafanaUrl,
                            api_key |-> Absent, dashboard |-> Absent],
     calls |-> <<>>, grafana |-> NoAnswer, resp |-> NoResponse]

\* request.json or {} and the three data.get
ImpReceive ==
    /\ op = "import" /\ imp.pc = "receive"
    /\ imp' = IF imp.req.malformed
              THEN [imp EXCEPT !.pc = "done", !.resp = ExceptionResponse(BadBody)]
              ELSE [imp EXCEPT !.pc = "check"]
    /\ UNCHANGED <<op, genVars, val, discVars>>

\* if not api_key ... if not dashboard
ImpCheck ==
    /\ op = "import" /\ imp.pc = "check"
    /\ imp' = IF ImportRejection(imp.req) # Absent
              THEN [imp EXCEPT !.pc = "done", !.resp = ImportRejection(imp.req)[1]]
              ELSE [imp EXCEPT !.pc = "post"]
    /\ UNCHANGED <<op, genVars, val, discVars>>

\* the POST to Grafana and the response built from its answer
ImpPost ==
    /\ op = "import" /\ imp.pc = "post"
    /\ \E answer \in GrafanaAnswers :
        imp' = [imp EXCEPT !.pc = "done", !.calls = Append(@, ImportCall(imp.req)),
                           !.grafana = answer, !.resp = ImportResponse(imp.req, answer)]
    /\ UNCHANGED <<op, genVars, val, discVars>>

ImpNext == ImpReceive \/ ImpCheck \/ ImpPost

(***************************************************************************)
(* The validate handler of the facade                                      *)
(***************************************************************************)
\* what a health endpoint does with the GET: the connection fails or it answers
HealthAnswers ==
    {[raised |-> TRUE, status_code |-> 0],
     [raised |-> FALSE, status_code |-> 200],
     [raised |-> FALSE, status_code |-> 503]}

\* metric names of each known exporter, and names of none
ValidateUniverse ==
    {"node_load1", "nvidia_smi_utilization_gpu", "DCGM_FI_DEV_GPU_UTIL",
     "intel_npu_usage_percent", "mac_cpu_power_watts", "up"}

\* what Prometheus does with the catalog query
CatalogAnswers ==
    {[raised |-> TRUE, status_code |-> 0, json_ok |-> FALSE, names |-> {}],
     [raised |-> FALSE, status_code |-> 500, json_ok |-> FALSE, names |-> {}],
     [raised |-> FALSE, status_code |-> 200, json_ok |-> FALSE, names |-> {}]}
    \cup {[raised |-> FALSE, status_code |-> 200, json_ok |-> TRUE, names |-> c] :
            c \in SUBSET ValidateUniverse}
NoCatalog == [raised |-> FALSE, status_code |-> 0, json_ok |-> FALSE, names |-> {}]
NoHealth == [raised |-> FALSE, status_code |-> 0]

PrometheusHint == "Install and start Prometheus: docker run -p 9090:9090 prom/prometheus"
GrafanaHint == "Install and start Grafana: docker run -p 3000:3000 grafana/grafana"
NodeExporterHint == "Install node-exporter for system metrics"
NoExportersHint == "No exporters found - run the setup script to install them"

NewValidation ==
    [prometheus |-> [status |-> "unknown", issues |-> <<>>],
     grafana |-> [status |-> "unknown", issues |-> <<>>],
     exporters |-> [found |-> <<>>, missing |-> <<>>],
     recommendations |-> <<>>]

\* the status and the issues a health probe leaves in its entry
ProbeEntryNoUnreachable(answer) ==
    IF ~answer.raised /\ answer.status_code = 200
    THEN [status |-> "healthy", issues |-> <<>>]
    ELSE [status |-> "unhealthy",
          issues |-> <<"Health check returned " \o ToString(answer.status_code)>>]
ProbeEntry(answer) ==
    IF answer.raised
    THEN [status |-> "unreachable", issues |-> <<"Connection refused">>]
    ELSE IF answer.status_code = 200
    THEN [status |-> "healthy", issues |-> <<>>]
    ELSE [status |-> "unhealthy",
          issues |-> <<"Health check returned " \o ToString(answer.status_code)>>]

CheckPrometheus(v, answer) ==
    [v EXCEPT !.prometheus = ProbeEntry(answer),
              !.recommendations = IF answer.raised THEN Append(@, PrometheusHint) ELSE @]

CheckGrafana(v, answer) ==
    [v EXCEPT !.grafana = ProbeEntry(answer),
              !.recommendations = IF answer.raised THEN Append(@, GrafanaHint) ELSE @]

\* the exporters found in a catalog, in the order of the checks
ExportersFound(names) ==
    (IF \E m \in names : StartsWith(m, "node_") THEN <<"node-exporter">> ELSE <<>>)
    \o (IF \E m \in names : StartsWithAny(m, {"nvidia_", "DCGM_"})
        THEN <<"nvidia-exporter">> ELSE <<>>)
    \o (IF \E m \in names : StartsWith(m, "intel_npu_") THEN <<"intel-npu-exporter">> ELSE <<>>)
    \o (IF \E m \in names : StartsWith(m, "mac_") THEN <<"mac-exporter">> ELSE <<>>)

\* the exporter check on the answer of the catalog query
CheckExporters(v, answer) ==
    IF answer.raised \/ (answer.status_code = 200 /\ ~answer.json_ok)
    THEN [v EXCEPT !.prometheus.issues = Append(@, "Could not query metrics: error")]
    ELSE IF answer.status_code # 200 THEN v
    ELSE LET found == ExportersFound(answer.names)
             no_node == ~\E m \in answer.names : StartsWith(m, "node_")
         IN  [v EXCEPT !.exporters = [found |-> found,
                                      missing |-> IF no_node THEN <<"node-exporter">> ELSE <<>>],
                       !.recommendations =
                           @ \o (IF no_node THEN <<NodeExporterHint>> ELSE <<>>)
                             \o (IF found = <<>> THEN <<NoExportersHint>> ELSE <<>>)]

\* the overall status
ReadyIgnoringGrafana(v) ==
    /\ v.prometheus.status = "healthy"
    /\ Len(v.exporters.found) > 0
Ready(v) ==
    /\ v.prometheus.status = "healthy"
    /\ v.grafana.status = "healthy"
    /\ Len(v.exporters.found) > 0

\* jsonify(validation) once ready and message are set
ValidateResponse(v) ==
    [code |-> 200, prometheus |-> v.prometheus, grafana |-> v.grafana,
     exporters |-> v.exporters, recommendations |-> v.recommendations,
     ready |-> Ready(v),
     message |-> IF Ready(v) THEN "System is ready for dashboard generation"
                 ELSE "Setup incomplete - check recommendations"]

ValidateRequests ==
    [malformed : BOOLEAN, prometheus_url : {PromUrl}, grafana_url : {GrafanaUrl}]

ValIdle ==
    [pc |-> "off",
     req |-> [malformed |-> FALSE, prometheus_url |-> PromUrl, grafana_url |-> GrafanaUrl],
     validation |-> NewValidation, calls |-> <<>>,
     answers |-> [prometheus |-> NoHealth, grafana |-> NoHealth, catalog |-> NoCatalog],
     resp |-> NoResponse]

\* request.json or {} and the two data.get
ValReceive ==
    /\ op = "validate" /\ val.pc = "receive"
    /\ val' = IF val.req.malformed
              THEN [val EXCEPT !.pc = "done", !.resp = ExceptionResponse(BadBody)]
              ELSE [val EXCEPT !.pc = "prometheus"]
    /\ UNCHANGED <<op, genVars, imp, discVars>>

ValProbePrometheus ==
    /\ op = "validate" /\ val.pc = "prometheus"
    /\ \E answer \in HealthAnswers :
        val' = [val EXCEPT !.pc = "grafana",
                           !.calls = Append(@, val.req.prometheus_url \o "/-/healthy"),
                           !.answers.prometheus = answer,
                           !.validation = CheckPrometheus(@, answer)]
    /\ UNCHANGED <<op, genVars, imp, discVars>>

ValProbeGrafana ==
    /\ op = "validate" /\ val.pc = "grafana"
    /\ \E answer \in HealthAnswers :
        val' = [val EXCEPT !.pc = IF val.validation.prometheus.status = "healthy"
                                  THEN "exporters" ELSE "verdict",
                           !.calls = Append(@, val.req.grafana_url \o "/api/health"),
                           !.answers.grafana = answer,
                           !.validation = CheckGrafana(@, answer)]
    /\ UNCHANGED <<op, genVars, imp, discVars>>

ValCheckExporters ==
    /\ op = "validate" /\ val.pc = "exporters"
    /\ \E answer \in CatalogAnswers :
        val' = [val EXCEPT !.pc = "verdict",
                           !.calls = Append(@, val.req.prometheus_url
                                                   \o "/api/v1/label/__name__/values"),
                           !.answers.catalog = answer,
                           !.validation = CheckExporters(@, answer)]
    /\ UNCHANGED <<op, genVars, imp, discVars>>

ValVerdict ==
    /\ op = "validate" /\ val.pc = "verdict"
    /\ val' = [val EXCEPT !.pc = "done", !.resp = ValidateResponse(val.validation)]
    /\ UNCHANGED <<op, genVars, imp, discVars>>

ValNext ==
    \/ ValReceive
    \/ ValProbePrometheus
    \/ ValProbeGrafana
    \/ ValCheckExporters
    \/ ValVerdict

(***************************************************************************)
(* The command line of the generator (main of tteck.py)                    *)
(***************************************************************************)
\* the probe fails when it raises and when its status is not 200
ProbeFailedOnlyRaise(answer) == answer.raised
ProbeFailed(answer) == answer.raised \/ answer.status_code # 200

\* if args.grafana_api_key
WantsImport(args) == args.grafana_api_key # Absent /\ args.grafana_api_key[1] # ""

CliIdle ==
    [pc |-> "off", args |-> [grafana_api_key |-> Absent],
     probe |-> NoHealth, grafana |-> NoAnswer, calls |-> <<>>,
     file |-> Absent, exit |-> Absent]

\* requests.get(f"{args.prometheus_url}/api/v1/query", params={"query": "up"}), and
\* sys.exit(1) when it fails
CliProbe ==
    /\ op = "cli" /\ cli.pc = "probe"
    /\ \E answer \in HealthAnswers :
        cli' = [cli EXCEPT !.probe = answer,
                           !.calls = Append(@, "probe_prometheus"),
                           !.pc = IF ProbeFailed(answer) THEN "exited" ELSE "discover",
                           !.exit = IF ProbeFailed(answer) THEN Some(1) ELSE @]
    /\ UNCHANGED <<op, genVars, imp, val, cache, now, dthread, served, last, solo, npu, reuse>>

\* generator = ScryptedDashboardGenerator(args.prometheus_url); generator.discover_all()
CliDiscoverAll ==
    /\ op = "cli" /\ cli.pc = "discover"
    /\ build' = DiscoverAll(NewGenerator(PromUrl), prom)
    /\ cli' = [cli EXCEPT !.pc = "save", !.calls = Append(@, "discover_all")]
    /\ UNCHANGED <<op, prom, gpc, gopts, gresp, imp, val,
                   cache, now, dthread, served, last, solo, npu, reuse>>

\* os.makedirs, open and json.dump: the file is written, or an OSError ends the process
\* with exit code 1
CliSave ==
    /\ op = "cli" /\ cli.pc = "save"
    /\ \E written \in BOOLEAN :
        cli' = IF written
               THEN [cli EXCEPT !.file = Some(build.panels),
                                !.calls = Append(@, "write_file"),
                                !.pc = IF WantsImport(cli.args) THEN "import" ELSE "finish"]
               ELSE [cli EXCEPT !.pc = "exited", !.exit = Some(1)]
    /\ UNCHANGED <<op, genVars, imp, val, cache, now, dthread, served, last, solo, npu, reuse>>

\* the POST to Grafana; whatever it answers is printed and the run goes on
CliImport ==
    /\ op = "cli" /\ cli.pc = "import"
    /\ \E answer \in GrafanaAnswers :
        cli' = [cli EXCEPT !.grafana = answer,
                           !.calls = Append(@, "import_grafana"),
                           !.pc = "finish"]
    /\ UNCHANGED <<op, genVars, imp, val, cache, now, dthread, served, last, solo, npu, reuse>>

\* main returns
CliFinish ==
    /\ op = "cli" /\ cli.pc = "finish"
    /\ cli' = [cli EXCEPT !.pc = "exited", !.exit = Some(0)]
    /\ UNCHANGED <<op, genVars, imp, val, cache, now, dthread, served, last, solo, npu, reuse>>

CliNext == CliProbe \/ CliDiscoverAll \/ CliSave \/ CliImport \/ CliFinish

(***************************************************************************)
(* The discover handler of the facade and its cache                        *)
(***************************************************************************)
TTL == 300

\* age < discovery_cache["ttl"]
FreshInclusive(age) == age <= TTL
Fresh(age) == age < TTL

\* s.replace(k, "")
RECURSIVE RemoveAll(_, _)
RemoveAll(s, k) ==
    IF Len(s) < Len(k) THEN s
    ELSE IF SubSeq(s, 1, Len(k)) = k THEN RemoveAll(SubSeq(s, Len(k) + 1, Len(s)), k)
    ELSE SubSeq(s, 1, 1) \o RemoveAll(SubSeq(s, 2, Len(s)), k)

\* d[k] = v
Put(d, k, v) == [x \in DOMAIN d \cup {k} |-> IF x = k THEN v ELSE d[x]]

\* f"has_{cap.replace('_gpu', '')}"
CapabilityKey(cap) == "has_" \o RemoveAll(cap, "_gpu")

NewCapabilities(g) ==
    [has_nvidia |-> FALSE, has_intel_gpu |-> FALSE, has_intel_npu |-> FALSE,
     has_mac |-> FALSE, has_multiple_nodes |-> Len(g.nodes) > 1,
     has_temperature |-> FALSE, has_power |-> FALSE, has_disk |-> FALSE,
     has_network |-> FALSE, has_processes |-> FALSE]

\* if node.hardware.get(flag): capabilities[key] = True
CapFlag(caps, node, flag, key) == IF node.hardware[flag] THEN Put(caps, key, TRUE) ELSE caps

\* the capability updates of one node
NodeCapabilities(caps, node) ==
    CapFlag(CapFlag(CapFlag(
        CapFlag(CapFlag(CapFlag(CapFlag(caps,
            node, "nvidia_gpu", CapabilityKey("nvidia_gpu")),
            node, "intel_gpu", CapabilityKey("intel_gpu")),
            node, "intel_npu", CapabilityKey("intel_npu")),
            node, "mac", CapabilityKey("mac")),
        node, "has_temp", "has_temperature"),
        node, "has_power", "has_power"),
        node, "has_process", "has_processes")

Capabilities(g) ==
    LET f[i \in 0..Len(g.nodes)] ==
            IF i = 0 THEN NewCapabilities(g) ELSE NodeCapabilities(f[i - 1], g.nodes[i])
    IN  Put(Put(f[Len(g.nodes)], "has_disk", HasDiskMetrics(g)),
            "has_network", HasNetworkMetrics(g))

KeyMetricsSample == 20

\* results["nodes"][instance]; the sample follows the iteration order of the set
ResultNode(node) ==
    [hostname |-> node.hostname, ip |-> node.ip, port |-> node.port,
     hardware |-> node.hardware, metric_count |-> Cardinality(node.metrics),
     key_metrics |-> Take(SetToSeq(node.metrics), KeyMetricsSample)]

\* the results of a discovery run, formatted for the plugin
FormatResults(g) ==
    [nodes |-> [instance \in {g.nodes[i].instance : i \in 1..Len(g.nodes)} |->
                   ResultNode(g.nodes[CHOOSE i \in 1..Len(g.nodes) :
                                          g.nodes[i].instance = instance])],
     total_metrics |-> Cardinality(g.all_metrics),
     capabilities |-> Capabilities(g)]

\* a server with nothing to discover
NoWorld == MakeWorld({}, "raise", <<>>, "raise", <<>>, FailedLabels)

Threads == {"t1", "t2"}
OtherUrl == "http://prom-b:9090"

\* the body is malformed, or it names the server and says whether to refresh
DiscoverRequests ==
    {[malformed |-> TRUE, prometheus_url |-> PromUrl, force_refresh |-> FALSE]}
    \cup [malformed : {FALSE}, prometheus_url : {PromUrl}, force_refresh : BOOLEAN]
    \cup {[malformed |-> FALSE, prometheus_url |-> OtherUrl, force_refresh |-> FALSE]}

\* the two-node server while every call to it fails: one listing raises, the other is
\* answered with an error status, and no query gets a result
AllFailWorld ==
    [MakeWorld(FullCatalog, "raise", <<InstA, InstB>>, "http_error",
               [i \in {InstA, InstB} |-> [m \in FullCatalog |-> "failed"]], FailedLabels)
        EXCEPT !.uname = QueryFailed, !.host = QueryFailed]

\* what the server at a url may look like during one discovery run: the first serves
\* two nodes and every kind of metric, or fails every call; the second serves the
\* three metrics of one node
DiscoverWorlds(url) ==
    IF url = PromUrl
    THEN {MakeWorld(FullCatalog, "ok", <<InstA, InstB>>, "ok", FullProbe, RichLabels),
          AllFailWorld}
    ELSE {MakeWorld(ScenarioCatalog, "ok", <<InstA>>, "ok",
                    [i \in {InstA} |-> [m \in ScenarioCatalog |-> "series"]], RichLabels)}

\* bounds of the runs: the requests received and the ticks of the clock
MaxRequests == 2
MaxTicks == 2

\* the clock advances in steps that reach the ttl exactly
TickSeconds == TTL \div 2

\* by is kept where the discovery runs are told apart: it names the run (the number of
\* its request) that stored the results and the run that stored the timestamp
EmptyCache == [timestamp |-> Absent, results |-> Absent, by |-> Absent]
RunZero == [results |-> 0, timestamp |-> 0]
StoredResultsBy(by, run) ==
    IF by = Absent THEN Absent ELSE Some([by[1] EXCEPT !.results = run])
StoredTimestampBy(by, run) ==
    IF by = Absent THEN Absent ELSE Some([by[1] EXCEPT !.timestamp = run])
RunNumber(by, received) == IF by = Absent THEN 0 ELSE received

\* a request thread between two requests; slot is what the thread found in the cache
\* when it read it, results what it stored itself
ThreadIdle ==
    [pc |-> "idle",
     req |-> [malformed |-> FALSE, prometheus_url |-> PromUrl, force_refresh |-> FALSE],
     g |-> NewGenerator(PromUrl), world |-> NoWorld,
     slot |-> [filled |-> FALSE, age |-> Absent, by |-> 0],
     results |-> Absent, calls |-> <<>>, run |-> 0]

\* the response sent last, with the request it answers and what its thread did
NoLast ==
    [req |-> ThreadIdle.req, slot |-> ThreadIdle.slot, calls |-> <<>>, resp |-> NoResponse]

Sent(thread, resp) ==
    [req |-> thread.req, slot |-> thread.slot, calls |-> thread.calls, resp |-> resp]

DiscIdle ==
    /\ cache = EmptyCache
    /\ now = 0
    /\ dthread = [t \in Threads |-> ThreadIdle]
    /\ served = 0
    /\ last = NoLast
    /\ solo = [ok |-> FALSE, timestamp |-> Absent]

\* the cache hit of lines 45-48: no forced refresh, a stored result, a stored timestamp
\* and an age below the ttl
CacheHit(req, slot, time) ==
    /\ ~req.force_refresh
    /\ slot.results # Absent
    /\ slot.timestamp # Absent
    /\ Fresh(time - slot.timestamp[1])

\* request.json or {} and the two data.get; a malformed body is answered at once by the
\* except clause
DReceive(t) ==
    /\ op = "discover" /\ dthread[t].pc = "idle"
    /\ served < MaxRequests
    /\ \E req \in DiscoverRequests :
        IF req.malformed
        THEN /\ last' = Sent([ThreadIdle EXCEPT !.req = req], ExceptionResponse(BadBody))
             /\ dthread' = dthread
        ELSE /\ last' = last
             /\ dthread' = [dthread EXCEPT ![t] =
                                [ThreadIdle EXCEPT !.pc = "check_cache", !.req = req,
                                                   !.run = RunNumber(cache.by, served + 1)]]
    /\ solo' = [ok |-> /\ \A u \in Threads : dthread[u].pc = "idle"
                       /\ last.resp.status = "success",
                timestamp |-> cache.timestamp]
    /\ served' = served + 1
    /\ UNCHANGED <<op, genVars, imp, val, cache, now, cli, npu, reuse>>

\* lines 45-48: the cache is read and the age computed
DCheckCache(t) ==
    /\ op = "discover" /\ dthread[t].pc = "check_cache"
    /\ dthread' = [dthread EXCEPT
           ![t].pc = IF CacheHit(dthread[t].req, cache, now)
                     THEN "return_cached" ELSE "discover_metrics",
           ![t].slot = [filled |-> cache.results # Absent,
                        age |-> IF cache.timestamp = Absent THEN Absent
                                ELSE Some(now - cache.timestamp[1]),
                        by |-> IF cache.by = Absent THEN 0 ELSE cache.by[1].timestamp]]
    /\ UNCHANGED <<op, genVars, imp, val, cache, now, served, last, solo, cli, npu, reuse>>

\* lines 49-54: the response is built from the age and from the cached results
DReturnCached(t) ==
    /\ op = "discover" /\ dthread[t].pc = "return_cached"
    /\ last' = Sent(dthread[t],
                    [code |-> 200, status |-> "success", cached |-> TRUE,
                     age_seconds |-> dthread[t].slot.age[1],
                     data |-> cache.results[1]])
    /\ dthread' = [dthread EXCEPT ![t] = ThreadIdle]
    /\ UNCHANGED <<op, genVars, imp, val, cache, now, served, solo, cli, npu, reuse>>

\* lines 57-58: a generator for the requested server lists the metric names
DDiscoverMetrics(t) ==
    /\ op = "discover" /\ dthread[t].pc = "discover_metrics"
    /\ \E world \in DiscoverWorlds(dthread[t].req.prometheus_url) :
        dthread' = [dthread EXCEPT
            ![t].pc = "identify_nodes",
            ![t].world = world,
            ![t].g = DiscoverMetrics(NewGenerator(dthread[t].req.prometheus_url), world),
            ![t].calls = Append(@, "discover_metrics")]
    /\ UNCHANGED <<op, genVars, imp, val, cache, now, served, last, solo, cli, npu, reuse>>

\* line 59
DIdentifyNodes(t) ==
    /\ op = "discover" /\ dthread[t].pc = "identify_nodes"
    /\ dthread' = [dthread EXCEPT
           ![t].pc = "detect_hardware",
           ![t].g = IdentifyNodes(@, dthread[t].world),
           ![t].calls = Append(@, "identify_nodes")]
    /\ UNCHANGED <<op, genVars, imp, val, cache, now, served, last, solo, cli, npu, reuse>>

\* line 60
DDetectHardware(t) ==
    /\ op = "discover" /\ dthread[t].pc = "detect_hardware"
    /\ dthread' = [dthread EXCEPT
           ![t].pc = "store_results",
           ![t].g = DetectHardware(@, dthread[t].world),
           ![t].calls = Append(@, "detect_hardware")]
    /\ UNCHANGED <<op, genVars, imp, val, cache, now, served, last, solo, cli, npu, reuse>>

\* lines 63-108: the results are formatted and stored; the generator is not used again
DStoreResults(t) ==
    /\ op = "discover" /\ dthread[t].pc = "store_results"
    /\ cache' = [cache EXCEPT !.results = Some(FormatResults(dthread[t].g)),
                              !.by = StoredResultsBy(@, dthread[t].run)]
    /\ dthread' = [dthread EXCEPT
           ![t].pc = "store_timestamp",
           ![t].results = cache'.results,
           ![t].g = NewGenerator(PromUrl),
           ![t].world = NoWorld]
    /\ UNCHANGED <<op, genVars, imp, val, now, served, last, solo, cli, npu, reuse>>

\* lines 109-115: the timestamp is stored and the fresh results are returned
DStoreTimestampKeep(t) ==
    /\ op = "discover" /\ dthread[t].pc = "store_timestamp"
    /\ last' = Sent(dthread[t],
                    [code |-> 200, status |-> "success", cached |-> FALSE,
                     data |-> dthread[t].results[1]])
    /\ dthread' = [dthread EXCEPT ![t] = ThreadIdle]
    /\ UNCHANGED <<op, genVars, imp, val, cache, now, served, solo, cli, npu, reuse>>
DStoreTimestamp(t) ==
    /\ op = "discover" /\ dthread[t].pc = "store_timestamp"
    /\ cache' = [cache EXCEPT !.timestamp = Some(now),
                              !.by = StoredTimestampBy(@, dthread[t].run)]
    /\ last' = Sent(dthread[t],
                    [code |-> 200, status |-> "success", cached |-> FALSE,
                     data |-> dthread[t].results[1]])
    /\ dthread' = [dthread EXCEPT ![t] = ThreadIdle]
    /\ UNCHANGED <<op, genVars, imp, val, now, served, solo, cli, npu, reuse>>

\* time passes
Tick ==
    /\ op = "discover"
    /\ now + TickSeconds <= MaxTicks * TickSeconds
    /\ now' = now + TickSeconds
    /\ UNCHANGED <<op, genVars, imp, val, cache, dthread, served, last, solo, cli, npu, reuse>>

DiscNext ==
    \/ \E t \in Threads :
        \/ DReceive(t)
        \/ DCheckCache(t)
        \/ DReturnCached(t)
        \/ DDiscoverMetrics(t)
        \/ DIdentifyNodes(t)
        \/ DDetectHardware(t)
        \/ DStoreResults(t)
        \/ DStoreTimestamp(t)
    \/ Tick

(***************************************************************************)
(* The Intel NPU exporter (npu-exporter.py): two gauges, set from the JSON *)
(* document of the intel-npu-top service on every scrape of /metrics.      *)
(* A field of the document is missing, a number, or a value float() does   *)
(* not take (null, a list, a word).                                        *)
(***************************************************************************)
Missing == [present |-> FALSE, numeric |-> FALSE, value |-> 0]
Number(v) == [present |-> TRUE, numeric |-> TRUE, value |-> v]
NotANumber == [present |-> TRUE, numeric |-> FALSE, value |-> 0]

\* data.get(field, 0)
GetOrZero(field) == IF field.present THEN field.value ELSE 0

\* Gauge.set(value) raises when float(value) does
SetRaises(field) == field.present /\ ~field.numeric

\* the gauges as the module creates them
NewGauges == [npu_utilization |-> 0, npu_temperature |-> 0]

\* what answers the GET of the upstream /metrics: the call raises, or it returns a status
\* and a body that is a JSON object with the two fields or no JSON object at all
NoDocument == [npu_utilization |-> Missing, npu_temperature |-> Missing]
UpstreamAnswers ==
    {[raised |-> TRUE, status_code |-> 0, json_object |-> FALSE, data |-> NoDocument]}
    \cup {[raised |-> FALSE, status_code |-> 503, json_object |-> TRUE,
           data |-> [npu_utilization |-> Number(40), npu_temperature |-> Number(45)]]}
    \cup {[raised |-> FALSE, status_code |-> 200, json_object |-> FALSE, data |-> NoDocument]}
    \cup {[raised |-> FALSE, status_code |-> 200, json_object |-> TRUE,
           data |-> [npu_utilization |-> u, npu_temperature |-> t]] :
             u \in {Missing, Number(40), Number(80), NotANumber},
             t \in {Missing, Number(45), NotANumber}}
NoUpstream == [raised |-> FALSE, status_code |-> 0, json_object |-> FALSE, data |-> NoDocument]

\* npu_utilization.set(data.get('npu_utilization', 0)), inside the try: st is the gauges
\* and whether the try block has raised
SetUtilization(st, data) ==
    IF st.raised THEN st
    ELSE IF SetRaises(data.npu_utilization) THEN [st EXCEPT !.raised = TRUE]
    ELSE [st EXCEPT !.gauges.npu_utilization = GetOrZero(data.npu_utilization)]

\* npu_temperature.set(data.get('npu_temperature', 0))
SetTemperature(st, data) ==
    IF st.raised THEN st
    ELSE IF SetRaises(data.npu_temperature) THEN [st EXCEPT !.raised = TRUE]
    ELSE [st EXCEPT !.gauges.npu_temperature = GetOrZero(data.npu_temperature)]

\* fetch_npu_metrics: the gauges after the call; every exception is caught and printed
FetchNpuMetrics(gauges, answer) ==
    IF answer.raised \/ answer.status_code # 200 \/ ~answer.json_object
    THEN gauges
    ELSE SetTemperature(SetUtilization([gauges |-> gauges, raised |-> FALSE], answer.data),
                        answer.data).gauges

\* generate_latest(): the exposition of the two gauges
Exposition(gauges) ==
    [intel_npu_utilization_percent |-> gauges.npu_utilization,
     intel_npu_temperature_celsius |-> gauges.npu_temperature]

\* scrapes served in a run
MaxScrapes == 3

\* the exporter between two scrapes; before is the gauges when the scrape began, fetches
\* the upstream calls made for it
ExporterIdle ==
    [pc |-> "off", gauges |-> NewGauges, before |-> NewGauges, upstream |-> NoUpstream,
     fetches |-> 0, scrapes |-> 0, response |-> Absent]

\* a scrape of /metrics arrives
ScrapeReceive ==
    /\ op = "scrape" /\ npu.pc = "idle" /\ npu.scrapes < MaxScrapes
    /\ npu' = [npu EXCEPT !.pc = "fetch", !.before = npu.gauges, !.fetches = 0,
                          !.upstream = NoUpstream, !.response = Absent,
                          !.scrapes = @ + 1]
    /\ UNCHANGED <<op, genVars, imp, val, cache, now, dthread, served, last, solo, cli, reuse>>

\* fetch_npu_metrics()
ScrapeFetch ==
    /\ op = "scrape" /\ npu.pc = "fetch"
    /\ \E answer \in UpstreamAnswers :
        npu' = [npu EXCEPT !.pc = "respond", !.upstream = answer, !.fetches = @ + 1,
                           !.gauges = FetchNpuMetrics(npu.gauges, answer)]
    /\ UNCHANGED <<op, genVars, imp, val, cache, now, dthread, served, last, solo, cli, reuse>>

\* return Response(generate_latest(), ...)
ScrapeRespond ==
    /\ op = "scrape" /\ npu.pc = "respond"
    /\ npu' = [npu EXCEPT !.pc = "idle", !.response = Some(Exposition(npu.gauges))]
    /\ UNCHANGED <<op, genVars, imp, val, cache, now, dthread, served, last, solo, cli, reuse>>

ExporterNext == ScrapeReceive \/ ScrapeFetch \/ ScrapeRespond

(***************************************************************************)
(* One generator instance whose discovery steps run again and again, each  *)
(* run against what Prometheus serves at that time.                        *)
(***************************************************************************)
MaxRuns == 3

\* what Prometheus serves during a run: the scenario host, a Mac alone, a server that
\* lists nothing, and a server whose every call raises
ReuseWorlds ==
    {MakeWorld(ScenarioCatalog, "ok", <<InstA>>, "ok",
               [i \in {InstA} |-> [m \in ScenarioCatalog |-> "series"]], RichLabels),
     MakeWorld({"mac_pcpu_usage_percent"}, "ok", <<InstB>>, "ok",
               [i \in {InstB} |-> [m \in {"mac_pcpu_usage_percent"} |-> "series"]],
               RichLabels),
     MakeWorld({}, "ok", <<>>, "ok", <<>>, RichLabels),
     MakeWorld({}, "raise", <<>>, "raise", <<>>, FailedLabels)}

ReuseIdle ==
    [pc |-> "off", g |-> NewGenerator(PromUrl),
     world |-> MakeWorld({}, "raise", <<>>, "raise", <<>>, FailedLabels), runs |-> 0]

\* the caller starts a discovery run on the instance it holds
ReuseStart ==
    /\ op = "reuse" /\ reuse.pc = "idle" /\ reuse.runs < MaxRuns
    /\ \E world \in ReuseWorlds :
        reuse' = [reuse EXCEPT !.pc = "discover_metrics", !.world = world, !.runs = @ + 1]
    /\ UNCHANGED <<op, genVars, imp, val, cache, now, dthread, served, last, solo, cli, npu>>

ReuseDiscoverMetrics ==
    /\ op = "reuse" /\ reuse.pc = "discover_metrics"
    /\ reuse' = [reuse EXCEPT !.pc = "identify_nodes",
                              !.g = DiscoverMetrics(reuse.g, reuse.world)]
    /\ UNCHANGED <<op, genVars, imp, val, cache, now, dthread, served, last, solo, cli, npu>>

ReuseIdentifyNodes ==
    /\ op = "reuse" /\ reuse.pc = "identify_nodes"
    /\ reuse' = [reuse EXCEPT !.pc = "detect_hardware",
                              !.g = IdentifyNodes(reuse.g, reuse.world)]
    /\ UNCHANGED <<op, genVars, imp, val, cache, now, dthread, served, last, solo, cli, npu>>

ReuseDetectHardware ==
    /\ op = "reuse" /\ reuse.pc = "detect_hardware"
    /\ reuse' = [reuse EXCEPT !.pc = "idle", !.g = DetectHardware(reuse.g, reuse.world)]
    /\ UNCHANGED <<op, genVars, imp, val, cache, now, dthread, served, last, solo, cli, npu>>

ReuseNext ==
    \/ ReuseStart \/ ReuseDiscoverMetrics \/ ReuseIdentifyNodes \/ ReuseDetectHardware

(***************************************************************************)
(* A generate request: discover_all step by step on a fresh generator,     *)
(* then the options are applied and the response is sent.                  *)
(***************************************************************************)
DefaultOptions ==
    [name |-> "Scrypted Telemetry", include_gpu |-> TRUE, include_processes |-> TRUE,
     include_disk |-> TRUE, include_network |-> TRUE, refresh_interval |-> "5s",
     uid |-> "scrypted-auto", datasource_uid |-> "prometheus-uid"]

\* every combination of the four include flags, and one request naming its datasource
GenerateOptions ==
    {[DefaultOptions EXCEPT !.include_gpu = a, !.include_processes = b,
                            !.include_disk = c, !.include_network = d] :
        a \in BOOLEAN, b \in BOOLEAN, c \in BOOLEAN, d \in BOOLEAN}
    \cup {[DefaultOptions EXCEPT !.datasource_uid = "grafana-ds", !.name = "Home lab"]}

\* the generate handler at rest and a fresh generator talking to `world`
GenIdle(world) ==
    /\ prom = world
    /\ build = [g |-> NewGenerator(PromUrl), panels |-> <<>>]
    /\ gopts = DefaultOptions
    /\ gresp = NoResponse

GenInit ==
    /\ op = "generate"
    /\ IsGenWorld(prom)
    /\ GenIdle(prom)
    /\ gpc = "receive"
    /\ imp = ImpIdle
    /\ val = ValIdle
    /\ DiscIdle
    /\ npu = ExporterIdle
    /\ reuse = ReuseIdle
    /\ cli = CliIdle

\* request.json or {}: a malformed body raises and is answered by the except clause
GenReceive ==
    /\ op = "generate" /\ gpc = "receive"
    /\ \E malformed \in BOOLEAN :
        IF malformed
        THEN gresp' = ExceptionResponse(BadBody) /\ gpc' = "done"
        ELSE gresp' = gresp /\ gpc' = "discover_metrics"
    /\ UNCHANGED <<op, prom, build, gopts, imp, val, discVars>>

GenDiscoverMetrics ==
    /\ op = "generate" /\ gpc = "discover_metrics"
    /\ build' = [build EXCEPT !.g = DiscoverMetrics(@, prom)]
    /\ gpc' = "identify_nodes"
    /\ UNCHANGED <<op, prom, gopts, gresp, imp, val, discVars>>

GenIdentifyNodes ==
    /\ op = "generate" /\ gpc = "identify_nodes"
    /\ build' = [build EXCEPT !.g = IdentifyNodes(@, prom)]
    /\ gpc' = "detect_hardware"
    /\ UNCHANGED <<op, prom, gopts, gresp, imp, val, discVars>>

GenDetectHardware ==
    /\ op = "generate" /\ gpc = "detect_hardware"
    /\ build' = [build EXCEPT !.g = DetectHardware(@, prom)]
    /\ gpc' = "build"
    /\ UNCHANGED <<op, prom, gopts, gresp, imp, val, discVars>>

GenBuild ==
    /\ op = "generate" /\ gpc = "build"
    /\ build' = BuildSmartDashboard(build.g, prom)
    /\ gpc' = "apply_options"
    /\ UNCHANGED <<op, prom, gopts, gresp, imp, val, discVars>>

\* the options are read when the request arrives and first used here
GenRespond ==
    /\ op = "generate" /\ gpc = "apply_options"
    /\ \E options \in GenerateOptions :
        /\ gopts' = options
        /\ gresp' = GenerateResponse(build.panels, options)
    /\ gpc' = "done"
    /\ UNCHANGED <<op, prom, build, imp, val, discVars>>

GenNext ==
    \/ GenReceive
    \/ GenDiscoverMetrics
    \/ GenIdentifyNodes
    \/ GenDetectHardware
    \/ GenBuild
    \/ GenRespond

SpecGenerate == GenInit /\ [][GenNext]_vars

\* the generate request against the servers whose dashboards hold every kind of panel,
\* some of them, or none
FilterInit ==
    /\ GenInit
    /\ prom \in ScenarioWorlds \cup FailureWorlds \cup HostnameFailureWorlds
                    \cup FilesystemWorlds

SpecFilter == FilterInit /\ [][GenNext]_vars

\* discover_all on its own: the request up to the return of _build_smart_dashboard
AssemblyNext ==
    \/ GenReceive
    \/ GenDiscoverMetrics
    \/ GenIdentifyNodes
    \/ GenDetectHardware
    \/ GenBuild

SpecAssembly == GenInit /\ [][AssemblyNext]_vars

(***************************************************************************)
(* The facade: one request to one of its handlers                          *)
(***************************************************************************)
FacadeInit ==
    /\ op \in {"generate", "import", "validate", "discover"}
    /\ IF op = "generate"
       THEN prom \in ScenarioWorlds \cup FailureWorlds /\ gpc = "receive"
       ELSE prom = NoWorld /\ gpc = "off"
    /\ GenIdle(prom)
    /\ IF op = "import"
       THEN \E req \in ImportRequests : imp = [ImpIdle EXCEPT !.pc = "receive", !.req = req]
       ELSE imp = ImpIdle
    /\ IF op = "validate"
       THEN \E req \in ValidateRequests : val = [ValIdle EXCEPT !.pc = "receive", !.req = req]
       ELSE val = ValIdle
    /\ DiscIdle
    /\ npu = ExporterIdle
    /\ reuse = ReuseIdle
    /\ cli = CliIdle

FacadeNext == GenNext \/ ImpNext \/ ValNext \/ DiscNext

SpecFacade == FacadeInit /\ [][FacadeNext]_vars

(***************************************************************************)
(* The command line run                                                    *)
(***************************************************************************)
CliInit ==
    /\ op = "cli"
    /\ prom \in ScenarioWorlds \cup FailureWorlds
    /\ GenIdle(prom) /\ gpc = "off"
    /\ imp = ImpIdle
    /\ val = ValIdle
    /\ DiscIdle
    /\ npu = ExporterIdle
    /\ reuse = ReuseIdle
    /\ \E key \in ImportKeys :
        cli = [CliIdle EXCEPT !.pc = "probe", !.args = [grafana_api_key |-> key]]

SpecCLI == CliInit /\ [][CliNext]_vars

(***************************************************************************)
(* The exporter serving scrapes                                            *)
(***************************************************************************)
ExporterInit ==
    /\ op = "scrape"
    /\ prom = NoWorld /\ GenIdle(prom) /\ gpc = "off"
    /\ imp = ImpIdle
    /\ val = ValIdle
    /\ DiscIdle
    /\ cli = CliIdle
    /\ npu = [ExporterIdle EXCEPT !.pc = "idle"]
    /\ reuse = ReuseIdle

SpecExporter == ExporterInit /\ [][ExporterNext]_vars

(***************************************************************************)
(* The discover handler while its cache holds the outcome of a completed   *)
(* run; the requests are counted from there and the runs are told apart.   *)
(***************************************************************************)
\* what the run before the first request left behind: the results of the two-node
\* server and the time they were stored at
WarmCache ==
    [timestamp |-> Some(0),
     results |-> Some(FormatResults(
         DetectHardware(
             IdentifyNodes(
                 DiscoverMetrics(NewGenerator(PromUrl),
                     MakeWorld(FullCatalog, "ok", <<InstA, InstB>>, "ok", FullProbe,
                               RichLabels)),
                 MakeWorld(FullCatalog, "ok", <<InstA, InstB>>, "ok", FullProbe, RichLabels)),
             MakeWorld(FullCatalog, "ok", <<InstA, InstB>>, "ok", FullProbe, RichLabels)))),
     by |-> Some(RunZero)]

WarmInit ==
    /\ op = "discover"
    /\ prom = NoWorld /\ GenIdle(prom) /\ gpc = "off"
    /\ imp = ImpIdle
    /\ val = ValIdle
    /\ cache = WarmCache
    /\ now = 0
    /\ dthread = [t \in Threads |-> ThreadIdle]
    /\ served = 0
    /\ last = NoLast
    /\ solo = [ok |-> FALSE, timestamp |-> Absent]
    /\ npu = ExporterIdle
    /\ reuse = ReuseIdle
    /\ cli = CliIdle

SpecWarm == WarmInit /\ [][DiscNext]_vars

(***************************************************************************)
(* A generator instance kept by its caller                                 *)
(***************************************************************************)
ReuseInit ==
    /\ op = "reuse"
    /\ prom = NoWorld /\ GenIdle(prom) /\ gpc = "off"
    /\ imp = ImpIdle
    /\ val = ValIdle
    /\ DiscIdle
    /\ cli = CliIdle
    /\ npu = ExporterIdle
    /\ reuse = [ReuseIdle EXCEPT !.pc = "idle"]

SpecReuse == ReuseInit /\ [][ReuseNext]_vars

(***************************************************************************)
(* Properties of the built dashboard and of the generate response          *)
(***************************************************************************)
\* _build_smart_dashboard has returned
Built == gpc = "apply_options" \/ (gpc = "done" /\ gresp.status = "success")

\* two grid rectangles share a cell
Overlap(a, b) ==
    /\ a.x < b.x + b.w /\ b.x < a.x + a.w
    /\ a.y < b.y + b.h /\ b.y < a.y + a.h

\* the row separator that opens the section of panel i
RowOf(panels, i) ==
    CHOOSE r \in 1..i :
        /\ panels[r].type = "row"
        /\ \A k \in (r + 1)..i : panels[k].type # "row"

\* C9: in the dashboard built by a fresh generator no two panels overlap, every panel
\* ends within the 24 grid columns, and the content panels of one section share one y,
\* which lies below the y of the section's row separator.
C9_LayoutDisjoint ==
    Built =>
        LET P == build.panels
            content == {i \in 1..Len(P) : P[i].type # "row"}
        IN  /\ \A i \in 1..Len(P), j \in 1..Len(P) :
                   i < j => ~Overlap(P[i].gridPos, P[j].gridPos)
            /\ \A i \in 1..Len(P) : P[i].gridPos.x + P[i].gridPos.w <= 24
            /\ \A i \in content : P[i].gridPos.y > P[RowOf(P, i)].gridPos.y
            /\ \A i \in content, j \in content :
                   RowOf(P, i) = RowOf(P, j) => P[i].gridPos.y = P[j].gridPos.y

\* a dashboard with three overview gauges side by side, a two-panel section and all
\* six row separators
C9_Witness ==
    /\ Built
    /\ Cardinality({i \in 1..Len(build.panels) : build.panels[i].type = "row"}) = 6
    /\ \E i \in 1..Len(build.panels) :
           build.panels[i].type # "row" /\ build.panels[i].gridPos.x = 12
           /\ build.panels[i].gridPos.w = 6
    /\ \E i \in 1..Len(build.panels), j \in 1..Len(build.panels) :
           /\ build.panels[i].title = "CPU Utilization"
           /\ build.panels[j].title = "Memory Usage"

\* C10: panel ids are strictly increasing in panel-list order, starting at 1.
C10_IdsStrictlyIncreasing ==
    Built =>
        /\ build.panels[1].id = 1
        /\ \A i \in 1..(Len(build.panels) - 1) : build.panels[i].id < build.panels[i + 1].id

\* the keywords of the categories a request disables
DisabledKeywords(options) ==
    (IF options.include_gpu THEN {} ELSE {"GPU", "Accelerator"})
    \cup (IF options.include_processes THEN {} ELSE {"Process"})
    \cup (IF options.include_disk THEN {} ELSE {"Disk", "Storage"})
    \cup (IF options.include_network THEN {} ELSE {"Network"})

\* the positions in the built list of the panels no disabled keyword names
KeptPositions(panels, options) ==
    {i \in 1..Len(panels) :
        \A k \in DisabledKeywords(options) : ~Contains(panels[i].title, k)}

\* the j-th smallest element of a set of positions
Nth(positions, j) ==
    CHOOSE i \in positions : Cardinality({k \in positions : k <= i}) = j

\* C3: the response holds exactly the built panels whose title has no keyword of a
\* disabled category, in their original order with id and gridPos unchanged; filtering
\* the returned list again changes nothing; panel_count is the length of the list.
C3_FilterExact ==
    (gpc = "done" /\ gresp.status = "success") =>
        LET out == gresp.dashboard.panels
            kept == KeptPositions(build.panels, gopts)
        IN  /\ Len(out) = Cardinality(kept)
            /\ \A j \in 1..Len(out) :
                   /\ out[j].id = build.panels[Nth(kept, j)].id
                   /\ out[j].title = build.panels[Nth(kept, j)].title
                   /\ out[j].gridPos = build.panels[Nth(kept, j)].gridPos
            /\ KeptPositions(out, gopts) = 1..Len(out)
            /\ FilterPanels(out, gopts) = out
            /\ gresp.panel_count = Len(out)

\* a response from which the GPU row and panel were removed and others were kept
C3_Witness ==
    /\ gpc = "done" /\ gresp.status = "success"
    /\ ~gopts.include_gpu /\ gopts.include_disk
    /\ \E i \in 1..Len(build.panels) : Contains(build.panels[i].title, "Accelerator")
    /\ \E i \in 1..Len(build.panels) : Contains(build.panels[i].title, "Disk")
    /\ Len(gresp.dashboard.panels) < Len(build.panels)
    /\ Len(gresp.dashboard.panels) > 2


(***************************************************************************)
(* Properties of the import handler                                        *)
(***************************************************************************)
ImportDone == op = "import" /\ imp.pc = "done"

\* C4: an import request that lacks api_key or lacks dashboard is answered with HTTP 400
\* and status "error" and sends nothing to Grafana; a request is sent to Grafana only
\* when both are present, and it is one POST of the dashboard to /api/dashboards/db
\* with the bearer token; the response is status "success" only if Grafana answered 200.
C4_ImportGate ==
    ImportDone =>
        /\ (~imp.req.malformed /\ (imp.req.api_key = Absent \/ imp.req.dashboard = Absent)) =>
               /\ imp.resp.code = 400 /\ imp.resp.status = "error"
               /\ imp.calls = <<>>
        /\ imp.calls # <<>> =>
               /\ imp.req.api_key # Absent /\ imp.req.dashboard # Absent
               /\ Len(imp.calls) = 1
               /\ imp.calls[1].method = "POST"
               /\ imp.calls[1].url = imp.req.grafana_url \o "/api/dashboards/db"
               /\ imp.calls[1].authorization = "Bearer " \o imp.req.api_key[1]
               /\ imp.calls[1].dashboard = imp.req.dashboard
        /\ imp.resp.status = "success" =>
               /\ imp.calls # <<>>
               /\ ~imp.grafana.raised /\ imp.grafana.status_code = 200

\* a request with a key and no dashboard was answered
C4_Witness ==
    /\ ImportDone /\ ~imp.req.malformed
    /\ imp.req.api_key = Some("glsa_key") /\ imp.req.dashboard = Absent
    /\ imp.resp.code = 400

(***************************************************************************)
(* Properties of the validate handler                                      *)
(***************************************************************************)
ValidateDone == op = "validate" /\ val.pc = "done"

\* the response is a verdict that says ready
ReadyTrue == "ready" \in DOMAIN val.resp /\ val.resp.ready

Answered200(answer) == ~answer.raised /\ answer.status_code = 200

KnownExporterPrefixes == {"node_", "nvidia_", "DCGM_", "intel_npu_", "mac_"}

\* C5: a validate response says ready=true if and only if the Prometheus health probe
\* returned 200, the Grafana health probe returned 200 and the catalog held a name with
\* a known exporter prefix; the catalog is queried only when Prometheus is healthy, and
\* the Grafana probe is made whatever the Prometheus probe answered.
C5_ReadyIff ==
    ValidateDone =>
        /\ ReadyTrue <=>
               /\ Answered200(val.answers.prometheus)
               /\ Answered200(val.answers.grafana)
               /\ Answered200(val.answers.catalog) /\ val.answers.catalog.json_ok
               /\ \E m \in val.answers.catalog.names :
                      StartsWithAny(m, KnownExporterPrefixes)
        /\ (\E i \in 1..Len(val.calls) :
                val.calls[i] = val.req.prometheus_url \o "/api/v1/label/__name__/values")
               => Answered200(val.answers.prometheus)
        /\ ~val.req.malformed =>
               /\ Len(val.calls) >= 2
               /\ val.calls[1] = val.req.prometheus_url \o "/-/healthy"
               /\ val.calls[2] = val.req.grafana_url \o "/api/health"

\* both services healthy and an exporter found
C5_Witness == ValidateDone /\ ReadyTrue /\ Len(val.calls) = 3

\* C6: with Prometheus healthy and the Grafana health probe raising, the response has
\* ready=false, grafana.status "unreachable" and the Grafana install hint among its
\* recommendations; a Grafana answer other than 200 yields grafana.status "unhealthy".
C6_GrafanaDown ==
    (ValidateDone /\ ~val.req.malformed) =>
        /\ (Answered200(val.answers.prometheus) /\ val.answers.grafana.raised) =>
               /\ val.resp.ready = FALSE
               /\ val.resp.grafana.status = "unreachable"
               /\ \E i \in 1..Len(val.resp.recommendations) :
                      val.resp.recommendations[i] = GrafanaHint
        /\ (~val.answers.grafana.raised /\ val.answers.grafana.status_code # 200) =>
               val.resp.grafana.status = "unhealthy"

\* Prometheus healthy with exporters, Grafana unreachable
C6_Witness ==
    /\ ValidateDone /\ ~val.req.malformed
    /\ Answered200(val.answers.prometheus) /\ val.answers.grafana.raised
    /\ val.resp.exporters.found # <<>>

(***************************************************************************)
(* Properties of the discover handler and its cache                        *)
(***************************************************************************)
\* thread t sends its response in this step
Responds(t) == dthread[t].pc # "idle" /\ dthread'[t].pc = "idle"

ThreePhases == <<"discover_metrics", "identify_nodes", "detect_hardware">>

\* C1: a discover response carries cached=true only when the request had
\* force_refresh=false and the cache held a result whose age, when the thread read it,
\* was strictly below the ttl of 300 s; the thread has then made no Prometheus call,
\* the data returned is the stored result and age_seconds is below the ttl.  And a
\* request with force_refresh=false that arrives after a success response, with no
\* other request being served before it is answered, and is answered less than the ttl
\* after the cached timestamp (the ttl window), is answered with cached=true.
C1_CachedOnlyWhenFresh ==
    [][\A t \in Threads :
          Responds(t) =>
              /\ last'.resp.cached =>
                     /\ ~dthread[t].req.force_refresh
                     /\ dthread[t].slot.filled
                     /\ dthread[t].slot.age # Absent
                     /\ dthread[t].slot.age[1] < TTL
                     /\ dthread[t].calls = <<>>
                     /\ last'.resp.age_seconds = dthread[t].slot.age[1]
                     /\ last'.resp.age_seconds < 300
                     /\ last'.resp.data = cache.results[1]
                     /\ cache' = cache
              /\ (/\ solo.ok
                  /\ ~dthread[t].req.force_refresh
                  /\ (solo.timestamp = Absent \/ now - solo.timestamp[1] < TTL))
                     => last'.resp.cached]_vars

\* the second of two requests in a row was answered from the cache, half a ttl old
C1_Witness ==
    /\ op = "discover" /\ solo.ok
    /\ last.resp.status = "success" /\ last.resp.cached
    /\ last.resp.age_seconds = TickSeconds

\* the thread of request req misses the cache, reading it now
Misses(req) ==
    \/ req.force_refresh
    \/ cache.results = Absent
    \/ cache.timestamp = Absent
    \/ now - cache.timestamp[1] >= TTL

\* C2: a discover request with force_refresh=true, or one that finds the cache slot empty
\* or its age at least the ttl, goes on to a fresh discovery: metric listing, node
\* identification and hardware detection in that order; it then overwrites the cached
\* result and the cached timestamp, and its response has cached=false and exactly the
\* result it stored.
C2_FreshRun ==
    [][\A t \in Threads :
          /\ (dthread[t].pc = "check_cache" /\ dthread'[t].pc # "check_cache"
              /\ Misses(dthread[t].req))
                 => dthread'[t].pc = "discover_metrics"
          /\ (dthread[t].pc = "store_results" /\ dthread'[t].pc # "store_results")
                 => /\ dthread[t].calls = ThreePhases
                    /\ dthread'[t].results # Absent
                    /\ cache'.results = dthread'[t].results
          /\ (Responds(t) /\ (\/ dthread[t].req.force_refresh
                              \/ ~dthread[t].slot.filled
                              \/ dthread[t].slot.age = Absent
                              \/ dthread[t].slot.age[1] >= TTL))
                 => /\ dthread[t].calls = ThreePhases
                    /\ cache'.timestamp = Some(now)
                    /\ last'.resp.status = "success"
                    /\ last'.resp.cached = FALSE
                    /\ dthread[t].results # Absent
                    /\ last'.resp.data = dthread[t].results[1]]_vars

\* a request without force_refresh found an expired entry and was answered afresh
C2_Witness ==
    /\ op = "discover"
    /\ last.resp.status = "success" /\ ~last.resp.cached
    /\ ~last.req.force_refresh
    /\ last.slot.filled /\ last.slot.age # Absent /\ last.slot.age[1] >= TTL
    /\ cache.timestamp = Some(now) /\ cache.results = Some(last.resp.data)

(***************************************************************************)
(* Properties of the responses of the facade                               *)
(***************************************************************************)
GenerateDone == op = "generate" /\ gpc = "done"
DiscoverSent == op = "discover" /\ last.resp # NoResponse

HasStatus(r) == "status" \in DOMAIN r /\ r.status \in {"success", "error"}

\* the envelope as claimed: a status, and code, error and traceback with every error
Envelope(r) ==
    /\ HasStatus(r)
    /\ r.status = "error" =>
           /\ r.code \in {500, 400}
           /\ {"error", "traceback"} \subseteq DOMAIN r

\* C7 as stated: every response of discover, generate, import and validate has a
\* top-level status "success" or "error", and every error response has HTTP code 500 (or
\* 400 for a missing required field) and carries status "error", error and traceback.
C7_Envelope ==
    /\ DiscoverSent => Envelope(last.resp)
    /\ GenerateDone => Envelope(gresp)
    /\ ImportDone => Envelope(imp.resp)
    /\ ValidateDone => Envelope(val.resp)

\* the three shapes of an error response
ExceptionShape(r) == DOMAIN r = {"code", "status", "error", "traceback"} /\ r.code = 500
MissingFieldShape(r) == DOMAIN r = {"code", "status", "error"} /\ r.code = 400
RejectedShape(r) == DOMAIN r = {"code", "status", "error", "response"} /\ r.code = 500

\* a response with a status: success with code 200, or an error of the exception shape
StatusResponse(r) ==
    /\ HasStatus(r)
    /\ r.status = "success" => r.code = 200
    /\ r.status = "error" => ExceptionShape(r)

\* C7 amended: every response of discover, generate and import has a top-level status
\* "success" or "error"; the verdict of validate has code 200 and no status field, and
\* only the response of its exception clause has one.  Every response with status
\* "error" carries error and has code 500, or 400 for an import request without api_key
\* or dashboard; traceback is carried by the responses of the exception clauses alone:
\* the 400 responses have none, and the 500 response of import to a Grafana answer other
\* than 200 carries Grafana's body as response instead.
C7_EnvelopeAmended ==
    /\ DiscoverSent => StatusResponse(last.resp)
    /\ GenerateDone => StatusResponse(gresp)
    /\ ImportDone =>
           /\ HasStatus(imp.resp)
           /\ imp.resp.status = "success" => imp.resp.code = 200
           /\ imp.resp.status = "error" =>
                  /\ "error" \in DOMAIN imp.resp
                  /\ imp.resp.code \in {500, 400}
                  /\ imp.resp.code = 400 <=>
                         /\ ~imp.req.malformed
                         /\ NoKey(imp.req.api_key) \/ NoDashboard(imp.req.dashboard)
                  /\ imp.resp.code = 400 => MissingFieldShape(imp.resp)
                  /\ imp.resp.code = 500 =>
                         IF imp.calls # <<>> /\ ~imp.grafana.raised
                                /\ imp.grafana.status_code # 200
                         THEN RejectedShape(imp.resp)
                         ELSE ExceptionShape(imp.resp)
    /\ ValidateDone =>
           IF val.req.malformed
           THEN HasStatus(val.resp) /\ val.resp.status = "error" /\ ExceptionShape(val.resp)
           ELSE /\ DOMAIN val.resp = {"code", "prometheus", "grafana", "exporters",
                                      "recommendations", "ready", "message"}
                /\ val.resp.code = 200

\* a verdict of validate, which has no status field
C7_Witness == ValidateDone /\ "status" \notin DOMAIN val.resp /\ ~val.resp.ready

(***************************************************************************)
(* Properties of the command line run                                      *)
(***************************************************************************)
\* the position of a step in the log of the run, 0 when it was not taken
StepAt(name) ==
    IF \E i \in 1..Len(cli.calls) : cli.calls[i] = name
    THEN CHOOSE i \in 1..Len(cli.calls) : cli.calls[i] = name
    ELSE 0

CliExited == op = "cli" /\ cli.pc = "exited"

\* C8: the command line probes Prometheus first; when the probe raises or answers with
\* a status other than 200 the process exits with code 1 having run no discovery,
\* written no file and sent nothing to Grafana.  When the probe succeeds the dashboard
\* file is written before an import is attempted, and an import that fails or is
\* rejected leaves the file in place and the exit code 0.
C8_ProbeFirst ==
    op = "cli" =>
        /\ cli.calls # <<>> => cli.calls[1] = "probe_prometheus"
        /\ (cli.pc # "probe" /\ (cli.probe.raised \/ cli.probe.status_code # 200)) =>
               /\ cli.pc = "exited" /\ cli.exit = Some(1)
               /\ cli.calls = <<"probe_prometheus">>
               /\ cli.file = Absent
        /\ StepAt("import_grafana") > 0 =>
               /\ StepAt("write_file") > 0
               /\ StepAt("write_file") < StepAt("import_grafana")
               /\ cli.file = Some(build.panels)
        /\ (CliExited /\ StepAt("import_grafana") > 0) => cli.exit = Some(0)

\* the run ended after Grafana rejected the import
C8_Witness ==
    /\ CliExited /\ StepAt("import_grafana") > 0
    /\ ~cli.grafana.raised /\ cli.grafana.status_code = 401
    /\ cli.file # Absent /\ cli.exit = Some(0)

(***************************************************************************)
(* Properties of the sections of the built dashboard                       *)
(***************************************************************************)
\* the titles of the row separators, in panel-list order
RowTitles(panels) ==
    LET rows == SelectSeq(panels, LAMBDA p : p.type = "row")
    IN  [i \in 1..Len(rows) |-> rows[i].title]

\* a node with a GPU-like capability: an NVIDIA GPU, an Intel GPU, an Intel NPU, or a
\* Mac that reports mac_gpu_usage_percent
GpuLike(n) ==
    \/ n.hardware.nvidia_gpu \/ n.hardware.intel_gpu \/ n.hardware.intel_npu
    \/ (n.hardware.mac /\ "mac_gpu_usage_percent" \in n.metrics)

\* the rows the discovery outcome of generator g calls for, in the fixed order
ExpectedRows(g) ==
    LET nodes == {g.nodes[i] : i \in 1..Len(g.nodes)}
    IN  <<TitleOverview>>
        \o (IF \E n \in nodes : GpuLike(n) THEN <<TitleGpuRow>> ELSE <<>>)
        \o <<TitleCpuRow>>
        \o (IF \E m \in g.all_metrics : Contains(m, "disk")
            THEN <<TitleStorageRow>> ELSE <<>>)
        \o (IF \E m \in g.all_metrics : Contains(m, "network") \/ Contains(m, "net_")
            THEN <<TitleNetworkRow>> ELSE <<>>)
        \o (IF \E n \in nodes : n.hardware.has_process THEN <<TitleProcessRow>> ELSE <<>>)

\* C11: in every built dashboard the row separators appear in the order Overview,
\* GPU & Accelerators, CPU & Memory, Storage, Network, Processes, each at most once; the
\* Overview and CPU & Memory rows are always there, the GPU row exactly when some node
\* has a GPU-like capability, Storage exactly when a catalog metric contains "disk",
\* Network exactly when one contains "network" or "net_", and Processes exactly when
\* some node has has_process.
C11_RowOrder == Built => RowTitles(build.panels) = ExpectedRows(build.g)

\* a dashboard with the Storage and Processes rows and without the GPU and Network rows
C11_Witness ==
    /\ Built
    /\ RowTitles(build.panels) =
           <<TitleOverview, TitleCpuRow, TitleStorageRow, TitleProcessRow>>

\* the server of the end-to-end scenario: the three names of ScenarioCatalog, all
\* present on the single instance 10.0.0.5:9100
ScenarioServer ==
    MakeWorld(ScenarioCatalog, "ok", <<InstA>>, "ok",
              [i \in {InstA} |-> [m \in ScenarioCatalog |-> "series"]], RichLabels)

\* what the claim says of a panel: its type, its title and the queries it sends
Shown(p) ==
    [type |-> p.type, title |-> p.title,
     exprs |-> [i \in 1..Len(p.targets) |-> p.targets[i].expr]]

\* C12: for the catalog {node_cpu_seconds_total, node_memory_MemAvailable_bytes,
\* node_memory_MemTotal_bytes}, all on the single instance 10.0.0.5:9100, the dashboard
\* has exactly four panels in this order: the Overview row (no content panel follows
\* it), the CPU & Memory row, one CPU panel with the rate-based query and one memory
\* panel with the percent-used query; there is no GPU, Storage, Network or Processes row.
C12_Scenario ==
    (Built /\ prom = ScenarioServer) =>
        [i \in 1..Len(build.panels) |-> Shown(build.panels[i])] =
            <<[type |-> "row", title |-> TitleOverview, exprs |-> <<>>],
              [type |-> "row", title |-> TitleCpuRow, exprs |-> <<>>],
              [type |-> "timeseries", title |-> "CPU Utilization",
               exprs |-> <<"100 - (avg by(instance) (rate(node_cpu_seconds_total{mode=\"idle\",instance=\"10.0.0.5:9100\"}[5m])) * 100)">>],
              [type |-> "timeseries", title |-> "Memory Usage",
               exprs |-> <<"(1 - (node_memory_MemAvailable_bytes{instance=\"10.0.0.5:9100\"} / node_memory_MemTotal_bytes{instance=\"10.0.0.5:9100\"})) * 100">>]>>

\* the dashboard of the scenario has been built
C12_Witness == Built /\ prom = ScenarioServer /\ Len(build.panels) = 4 /\ gpc = "apply_options"

(***************************************************************************)
(* Properties of discovery                                                 *)
(***************************************************************************)
\* _detect_hardware of the generate request has returned
Detected == op = "generate" /\ (gpc = "build" \/ Built)

\* the instance-scoped query of metric m answered with at least one series
HasSeries(P, instance, m) ==
    /\ instance \in DOMAIN P.probe /\ m \in DOMAIN P.probe[instance]
    /\ P.probe[instance][m] = "series"

\* C13: after _detect_hardware each node's metric set is exactly the set of catalog
\* metrics whose instance-scoped query returned at least one series, and the hardware
\* flags are a function of that set alone: nvidia_gpu iff a metric starts with nvidia_
\* or DCGM_, intel_npu iff intel_npu_usage_percent is in the set, mac iff a metric starts
\* with mac_, has_temp iff a metric contains "temp", has_power iff a metric contains
\* "power" or "watts"; evaluating the flags again on the same set gives the same flags.
C13_HardwareFlags ==
    Detected =>
        \A i \in 1..Len(build.g.nodes) :
            LET n == build.g.nodes[i]
            IN  /\ n.metrics = {m \in build.g.all_metrics : HasSeries(prom, n.instance, m)}
                /\ n.hardware.nvidia_gpu <=>
                       \E m \in n.metrics : StartsWith(m, "nvidia_") \/ StartsWith(m, "DCGM_")
                /\ n.hardware.intel_npu <=> "intel_npu_usage_percent" \in n.metrics
                /\ n.hardware.mac <=> \E m \in n.metrics : StartsWith(m, "mac_")
                /\ n.hardware.has_temp <=> \E m \in n.metrics : Contains(m, "temp")
                /\ n.hardware.has_power <=>
                       \E m \in n.metrics : Contains(m, "power") \/ Contains(m, "watts")
                /\ HardwareOf(n.metrics) = n.hardware
                /\ \A j \in 1..Len(build.g.nodes) :
                       build.g.nodes[j].metrics = n.metrics =>
                           build.g.nodes[j].hardware = n.hardware

\* a node that is an NVIDIA host through a DCGM_ metric while another catalog metric
\* has no series for it
C13_Witness ==
    /\ Detected
    /\ \E i \in 1..Len(build.g.nodes) :
           /\ build.g.nodes[i].hardware.nvidia_gpu
           /\ build.g.nodes[i].metrics = {"DCGM_FI_DEV_GPU_UTIL"}
           /\ build.g.nodes[i].metrics # build.g.all_metrics

\* the server P with every failed query answered by an empty result instead
Healed(P) ==
    [P EXCEPT
        !.probe = [i \in DOMAIN P.probe |->
                      [m \in DOMAIN P.probe[i] |->
                          IF P.probe[i][m] = "failed" THEN "empty" ELSE P.probe[i][m]]],
        !.uname = IF P.uname.failed THEN Result(<<>>) ELSE P.uname,
        !.host = IF P.host.failed THEN Result(<<>>) ELSE P.host,
        !.disks = [i \in DOMAIN P.disks |->
                      IF P.disks[i].failed THEN Result(<<>>) ELSE P.disks[i]],
        !.mounts = [i \in DOMAIN P.mounts |->
                       IF P.mounts[i].failed THEN Result(<<>>) ELSE P.mounts[i]],
        !.devices = [i \in DOMAIN P.devices |->
                        IF P.devices[i].failed THEN Result(<<>>) ELSE P.devices[i]]]

\* some query of server P fails
SomeQueryFails(P) == Healed(P) # P

\* C14: no failure of a Prometheus call (it raises, answers with a status other than 200
\* or with a non-success envelope) leaves _discover_metrics, _identify_nodes or
\* _query_metric as an exception: the request goes on to its success response, a failed
\* listing leaves the catalog, respectively the node map, as it was, and a failed query
\* has the effect of a query that found no series: the generator and the dashboard are
\* those of a server that answers every failed query with an empty result.
C14_FailuresSwallowed ==
    op = "generate" =>
        /\ (gpc = "done" /\ gresp.status = "error") =>
               /\ gresp.error = BadBody
               /\ build = [g |-> NewGenerator(PromUrl), panels |-> <<>>]
        /\ (gpc \notin {"receive", "discover_metrics", "done"} /\ prom.names_call # "ok") =>
               build.g.all_metrics = NewGenerator(PromUrl).all_metrics
        /\ (gpc \in {"detect_hardware", "build", "apply_options"} /\ prom.inst_call # "ok") =>
               build.g.nodes = NewGenerator(PromUrl).nodes
        /\ (gpc = "build" /\ SomeQueryFails(prom)) =>
               build.g = DetectHardware(IdentifyNodes(DiscoverMetrics(
                             NewGenerator(PromUrl), Healed(prom)), Healed(prom)), Healed(prom))
        /\ (gpc = "apply_options" /\ SomeQueryFails(prom)) =>
               build = DiscoverAll(NewGenerator(PromUrl), Healed(prom))

\* a dashboard built while the presence probe of the CPU counter failed and the other
\* probes found series: it has the memory panel and no CPU panel
C14_Witness ==
    /\ Built /\ SomeQueryFails(prom)
    /\ prom.names = ScenarioCatalog /\ prom.instances = <<InstA>>
    /\ prom.probe[InstA]["node_cpu_seconds_total"] = "failed"
    /\ \E i \in 1..Len(build.panels) : build.panels[i].title = "Memory Usage"
    /\ \A i \in 1..Len(build.panels) : build.panels[i].title # "CPU Utilization"

\* every call to server P fails
AllCallsFail(P) ==
    /\ P.names_call # "ok" /\ P.inst_call # "ok"
    /\ \A i \in DOMAIN P.probe : \A m \in DOMAIN P.probe[i] : P.probe[i][m] = "failed"
    /\ P.uname.failed /\ P.host.failed

\* the results of a run that discovered nothing
EmptyResults ==
    [nodes |-> <<>>, total_metrics |-> 0,
     capabilities |->
         [has_nvidia |-> FALSE, has_intel_gpu |-> FALSE, has_intel_npu |-> FALSE,
          has_mac |-> FALSE, has_multiple_nodes |-> FALSE, has_temperature |-> FALSE,
          has_power |-> FALSE, has_disk |-> FALSE, has_network |-> FALSE,
          has_processes |-> FALSE]]

\* C15: a discover run during which every Prometheus call fails ends in no error
\* response: it stores a result with an empty node map, total_metrics 0 and every
\* capability flag false in the cache slot as a fresh result is stored, and responds
\* with status "success", cached=false and that result.
C15_AllFailDiscover ==
    [][\A t \in Threads :
        /\ (dthread[t].pc = "detect_hardware" /\ AllCallsFail(dthread[t].world)) =>
               dthread'[t].pc \in {"detect_hardware", "store_results"}
        /\ (dthread[t].pc = "store_results" /\ AllCallsFail(dthread[t].world)
                /\ dthread'[t].pc # "store_results") =>
               /\ dthread'[t].pc = "store_timestamp"
               /\ dthread[t].calls = ThreePhases
               /\ cache'.results = Some(EmptyResults)
               /\ dthread'[t].results = Some(EmptyResults)
        /\ (dthread[t].pc = "store_timestamp" /\ dthread[t].results = Some(EmptyResults)
                /\ Responds(t)) =>
               /\ last'.resp = [code |-> 200, status |-> "success", cached |-> FALSE,
                                data |-> EmptyResults]
               /\ cache'.timestamp = Some(now)]_vars

\* the answer to a run against the failing server, with its result in the cache
C15_Witness ==
    /\ op = "discover" /\ last.req.prometheus_url = PromUrl
    /\ \A world \in DiscoverWorlds(PromUrl) :
           FormatResults(DetectHardware(IdentifyNodes(DiscoverMetrics(
               NewGenerator(PromUrl), world), world), world)) = EmptyResults
               => AllCallsFail(world)
    /\ last.calls = ThreePhases
    /\ last.resp.status = "success" /\ ~last.resp.cached
    /\ last.resp.data = EmptyResults
    /\ cache.timestamp = Some(now) /\ cache.results = Some(EmptyResults)

(***************************************************************************)
(* Properties of the exporter                                              *)
(***************************************************************************)
\* the fetch of the scrape has been made
Fetched == op = "scrape" /\ npu.scrapes > 0 /\ npu.pc \in {"respond", "idle"}

\* both gauges have the values they had when the scrape began
GaugesKept == npu.gauges = npu.before

\* each gauge has the value of its upstream field, 0 for a missing field
GaugesSet ==
    /\ ~SetRaises(npu.upstream.data.npu_utilization)
    /\ ~SetRaises(npu.upstream.data.npu_temperature)
    /\ npu.gauges.npu_utilization = GetOrZero(npu.upstream.data.npu_utilization)
    /\ npu.gauges.npu_temperature = GetOrZero(npu.upstream.data.npu_temperature)

\* the upstream answered 200 with a JSON object whose fields, where present, are numbers
UsableAnswer ==
    /\ ~npu.upstream.raised /\ npu.upstream.status_code = 200 /\ npu.upstream.json_object
    /\ ~SetRaises(npu.upstream.data.npu_utilization)
    /\ ~SetRaises(npu.upstream.data.npu_temperature)

\* C16: every scrape of /metrics makes exactly one upstream fetch before it responds and
\* always returns an exposition; when the fetch raises or returns a status other than 200
\* both gauges keep the values of the last successful fetch (0 at first) and are served
\* unchanged; when it succeeds each gauge is set to the upstream field, or to 0 when the
\* field is missing.  A 200 answer the exporter cannot use (no JSON object, a field that
\* is no number) is taken here for either case: a fetch that raised or one that succeeded.
C16_ScrapeFrame ==
    Fetched =>
        /\ npu.fetches = 1
        /\ npu.pc = "idle" => npu.response = Some(Exposition(npu.gauges))
        /\ (npu.upstream.raised \/ npu.upstream.status_code # 200) => GaugesKept
        /\ UsableAnswer => GaugesSet
        /\ GaugesKept \/ GaugesSet

\* _identify_nodes of the generate request has returned
Identified == op = "generate" /\ gpc \in {"detect_hardware", "build", "apply_options"}

\* the listed instance strings that contain a colon, in listing order
ListedWithColon(P) == SelectSeq(P.instances, LAMBDA i : \E k \in 1..Len(i) : SubSeq(i, k, k) = ":")

\* C17: _identify_nodes creates one node per listed instance string that contains a
\* colon, under the full instance string, with ip the text before the last colon and
\* port the text after it; an instance string without a colon gets no node; the node's
\* hostname is the resolved hostname when the resolution returns a non-empty value, and
\* the ip otherwise.
C17_IdentifyNodes ==
    (Identified /\ prom.inst_call = "ok") =>
        /\ [i \in 1..Len(build.g.nodes) |-> build.g.nodes[i].instance] = ListedWithColon(prom)
        /\ \A i \in 1..Len(build.g.nodes) :
               LET n == build.g.nodes[i]
                   resolved == GetHostnameForIp(build.g, prom, n.ip)
               IN  /\ n.ip \o ":" \o n.port = n.instance
                   /\ \A k \in 1..Len(n.port) : SubSeq(n.port, k, k) # ":"
                   /\ n.hostname = (IF resolved # "" THEN resolved ELSE n.ip)
                   /\ ({"node_uname_info", "host"} \cap build.g.all_metrics = {})
                          => n.hostname = n.ip
                   /\ (prom.uname.failed /\ prom.host.failed) => n.hostname = n.ip

\* a listing with a name without a port, an instance with colons in its address and a
\* dotted-quad instance: two nodes, each named by its ip
C17_Witness ==
    /\ Identified /\ prom.instances = <<"gateway", InstV6, InstA>>
    /\ Len(build.g.nodes) = 2
    /\ build.g.nodes[1].ip = "[fe80::1]" /\ build.g.nodes[1].port = "9100"
    /\ build.g.nodes[1].hostname = "[fe80::1]"
    /\ build.g.nodes[2].instance = InstA /\ build.g.nodes[2].ip = "10.0.0.5"

(***************************************************************************)
(* Properties of the queries of the panels                                 *)
(***************************************************************************)
\* the queries of the panel with the given title, none when there is no such panel
ExprsOf(panels, title) ==
    LET found == SelectSeq(panels, LAMBDA p : p.title = title)
    IN  IF found = <<>> THEN <<>>
        ELSE [i \in 1..Len(found[1].targets) |-> found[1].targets[i].expr]

\* the queries among exprs that select the instance of node n
QueriesFor(exprs, n) ==
    SelectSeq(exprs, LAMBDA e : Contains(e, "instance=\"" \o n.instance \o "\""))

\* the text that tells the query of a source from the others
CpuMark(n) ==
    IF "cpu_usage_idle" \in n.metrics THEN "100 - cpu_usage_idle{cpu=\"cpu-total\""
    ELSE IF "node_cpu_seconds_total" \in n.metrics
    THEN "rate(node_cpu_seconds_total{mode=\"idle\""
    ELSE IF "mac_pcpu_usage_percent" \in n.metrics THEN "(mac_pcpu_usage_percent{"
    ELSE ""
MemoryMark(n) ==
    IF "node_memory_MemAvailable_bytes" \in n.metrics
    THEN "(1 - (node_memory_MemAvailable_bytes{"
    ELSE IF "mem_used_percent" \in n.metrics THEN "mem_used_percent{"
    ELSE ""

\* exprs holds exactly one query for each node with a mark, the one its mark names, in
\* node order, and none for the other nodes
OnePerNode(exprs, nodes, marks) ==
    /\ Len(exprs) = Cardinality({i \in 1..Len(nodes) : marks[i] # ""})
    /\ \A i \in 1..Len(nodes) :
           IF marks[i] = "" THEN QueriesFor(exprs, nodes[i]) = <<>>
           ELSE /\ Len(QueriesFor(exprs, nodes[i])) = 1
                /\ Contains(QueriesFor(exprs, nodes[i])[1], marks[i])
    /\ \A i \in 1..Len(exprs), j \in 1..Len(exprs) :
           \A a \in 1..Len(nodes), b \in 1..Len(nodes) :
               (i < j /\ QueriesFor(<<exprs[i]>>, nodes[a]) # <<>>
                      /\ QueriesFor(<<exprs[j]>>, nodes[b]) # <<>>) => a < b

\* C18: for every node whose metric set holds a CPU source the CPU panel has exactly one
\* query for that node, chosen by priority: 100 - cpu_usage_idle if cpu_usage_idle is
\* present, else the rate of node_cpu_seconds_total if that counter is present, else the
\* average of the mac_pcpu and mac_ecpu percentages if mac_pcpu_usage_percent is present;
\* a node with none of them gets no CPU query.  Likewise the memory panel has at most one
\* query per node, with node_memory_MemAvailable_bytes preferred to mem_used_percent.
C18_OneQueryPerNode ==
    Built =>
        /\ OnePerNode(ExprsOf(build.panels, "CPU Utilization"), build.g.nodes,
                      [i \in 1..Len(build.g.nodes) |-> CpuMark(build.g.nodes[i])])
        /\ OnePerNode(ExprsOf(build.panels, "Memory Usage"), build.g.nodes,
                      [i \in 1..Len(build.g.nodes) |-> MemoryMark(build.g.nodes[i])])

\* a node with both CPU sources of Linux hosts and both memory sources
C18_Witness ==
    /\ Built /\ Len(build.g.nodes) = 1
    /\ {"cpu_usage_idle", "node_cpu_seconds_total", "node_memory_MemAvailable_bytes",
        "mem_used_percent"} \subseteq build.g.nodes[1].metrics
    /\ Len(ExprsOf(build.panels, "CPU Utilization")) = 1
    /\ Len(ExprsOf(build.panels, "Memory Usage")) = 1


\* the main filesystems the server reports for the nodes that export
\* node_filesystem_size_bytes, as <<instance, mountpoint>> in node-then-result order
MainFilesystems(nodes, P) ==
    Flatten([i \in 1..Len(nodes) |->
        IF "node_filesystem_size_bytes" \in nodes[i].metrics
           /\ nodes[i].instance \in DOMAIN P.mounts
           /\ ~P.mounts[nodes[i].instance].failed
        THEN LET kept == SelectSeq(P.mounts[nodes[i].instance].items,
                             LAMBDA mount : mount \in {"/", "/home", "/var", "/mnt"})
             IN  [k \in 1..Len(kept) |-> <<nodes[i].instance, kept[k]>>]
        ELSE <<>>])

DiskUsageExprs == ExprsOf(build.panels, ":chart: Disk Usage")
ProcessPanels == SelectSeq(build.panels, LAMBDA p : p.title = ":fire: Top Processes")

\* C19: the Disk Usage panel never has more than 6 queries, whatever the number of nodes
\* and filesystems, and the queries kept are the first 6 in node-then-result order; when
\* the Processes row is included its panel has exactly the two fixed top-10 table
\* queries, of CPU and of memory.
C19_DiskUsageCap ==
    Built =>
        /\ Len(DiskUsageExprs) <= 6
        /\ DiskUsageExprs # <<>> =>
               Len(DiskUsageExprs) =
                   IF Len(MainFilesystems(build.g.nodes, prom)) < 6
                   THEN Len(MainFilesystems(build.g.nodes, prom)) ELSE 6
        /\ \A i \in 1..Len(DiskUsageExprs) :
               Contains(DiskUsageExprs[i],
                   "node_filesystem_size_bytes{instance=\""
                       \o MainFilesystems(build.g.nodes, prom)[i][1] \o "\",mountpoint=\""
                       \o MainFilesystems(build.g.nodes, prom)[i][2] \o "\"}")
        /\ (\E i \in 1..Len(build.panels) :
                build.panels[i].type = "row" /\ build.panels[i].title = ":chart: Processes")
               => /\ Len(ProcessPanels) = 1
                  /\ ProcessPanels[1].targets =
                         <<[expr |-> "topk(10, top_process_cpu_percent)", format |-> "table"],
                           [expr |-> "topk(10, top_process_memory_percent)",
                            format |-> "table"]>>

\* more than six main filesystems were reported, and the Processes row is there
C19_Witness ==
    /\ Built
    /\ Len(MainFilesystems(build.g.nodes, prom)) > 6
    /\ Len(DiskUsageExprs) = 6
    /\ Len(ProcessPanels) = 1


(***************************************************************************)
(* Properties of the layout cursor                                         *)
(***************************************************************************)
\* the titles of the sections with the height each adds below its row separator
SectionHeights ==
    <<[title |-> ":target: System Overview", height |-> 6],
      [title |-> ":rocket: GPU & Accelerators", height |-> 11],
      [title |-> ":laptop: CPU & Memory", height |-> 11],
      [title |-> ":floppy: Storage", height |-> 11],
      [title |-> ":globe: Network", height |-> 11],
      [title |-> ":chart: Processes", height |-> 13]>>

\* the sections whose height depends on a content panel of theirs
ContentSized ==
    {":target: System Overview", ":rocket: GPU & Accelerators", ":globe: Network"}

RowAppended(panels, title) ==
    \E i \in 1..Len(panels) : panels[i].type = "row" /\ panels[i].title = title

\* a content panel follows the row separator of the section
ContentAppended(panels, title) ==
    \E i \in 1..(Len(panels) - 1) :
        /\ panels[i].type = "row" /\ panels[i].title = title
        /\ panels[i + 1].type # "row"

RECURSIVE SumOfRows(_, _)
SumOfRows(panels, k) ==
    IF k = 0 THEN 0
    ELSE SumOfRows(panels, k - 1)
             + (IF RowAppended(panels, SectionHeights[k].title)
                THEN 1 + SectionHeights[k].height ELSE 0)

RECURSIVE SumOfSections(_, _)
SumOfSections(panels, k) ==
    IF k = 0 THEN 0
    ELSE SumOfSections(panels, k - 1)
             + (IF ~RowAppended(panels, SectionHeights[k].title) THEN 0
                ELSE IF SectionHeights[k].title \in ContentSized
                        /\ ~ContentAppended(panels, SectionHeights[k].title)
                THEN 1
                ELSE 1 + SectionHeights[k].height)

\* C20 as stated: after assembly by a fresh generator, current_y is the sum, over the
\* sections whose row separator was appended, of 1 for the row separator plus the fixed
\* increment of the section: Overview 6, GPU & Accelerators 11, CPU & Memory 11,
\* Storage 11, Network 11, Processes 13.
C20_CursorSum ==
    Built => build.g.current_y = SumOfRows(build.panels, Len(SectionHeights))

\* C20 (amended): after assembly by a fresh generator, current_y is the sum, over the
\* sections whose row separator was appended, of 1 for the row separator plus the
\* increment of the section: CPU & Memory 11, Storage 11 and Processes 13 always, and
\* Overview 6, GPU & Accelerators 11 and Network 11 only when the section appended a
\* content panel.
C20_CursorSumAmended ==
    Built => build.g.current_y = SumOfSections(build.panels, Len(SectionHeights))

\* an overview without stat panel next to a GPU section with its panel
C20_Witness ==
    /\ Built
    /\ ~ContentAppended(build.panels, ":target: System Overview")
    /\ ContentAppended(build.panels, ":rocket: GPU & Accelerators")
    /\ build.g.current_y = SumOfSections(build.panels, Len(SectionHeights))
    /\ build.g.current_y # SumOfRows(build.panels, Len(SectionHeights))


(***************************************************************************)
(* Properties of the sections                                              *)
(***************************************************************************)
\* the sections that are to hold a content panel whenever their row is there
FilledSections ==
    {":rocket: GPU & Accelerators", ":laptop: CPU & Memory", ":floppy: Storage",
     ":globe: Network", ":chart: Processes"}

\* C21: for each of the sections GPU & Accelerators, Storage, Network, Processes and
\* CPU & Memory, whenever its row separator is appended, at least one content panel of
\* the section is appended after it and before the next row separator.
C21_RowsHaveContent ==
    Built => \A title \in FilledSections :
                 RowAppended(build.panels, title) => ContentAppended(build.panels, title)


(***************************************************************************)
(* Properties of repeated discovery                                        *)
(***************************************************************************)
\* a discovery run of the kept generator has returned
RunDone == op = "reuse" /\ reuse.pc = "idle" /\ reuse.runs > 0

\* C22: each discovery run replaces its outputs wholesale, also when the same generator
\* instance runs discovery more than once: after a run the node map holds exactly the
\* instances with a colon that Prometheus listed in that run, and the metric catalog is
\* exactly the listing of that run.  (A run whose listing call failed is left open.)
C22_RunReplaces ==
    RunDone =>
        /\ reuse.world.inst_call = "ok" =>
               {reuse.g.nodes[i].instance : i \in 1..Len(reuse.g.nodes)}
                   = {inst \in SeqRange(reuse.world.instances) : Contains(inst, ":")}
        /\ reuse.world.names_call = "ok" => reuse.g.all_metrics = reuse.world.names


(***************************************************************************)
(* Properties of the cache under concurrent requests                       *)
(***************************************************************************)
\* C23: under any interleaving of concurrent discover requests, a response with
\* cached=true returns a result and an age_seconds that belong to the same completed
\* discovery run: the age was computed from the timestamp of the run whose results are
\* returned.
C23_CachedPair ==
    [][\A t \in Threads :
          (/\ cache.by # Absent
           /\ dthread[t].pc = "return_cached" /\ dthread'[t].pc = "idle")
              => dthread[t].slot.by = cache.by[1].results]_vars


\* what a discovery run against the server at url can store
DiscoveredAt(url) ==
    {FormatResults(DetectHardware(IdentifyNodes(DiscoverMetrics(NewGenerator(url), w), w), w)) :
        w \in DiscoverWorlds(url)}

\* C24: for any sequence of discover requests, a response with cached=true contains a
\* result that was discovered from the prometheus_url given in the request it answers.
C24_CachedSameUrl ==
    (/\ op = "discover"
     /\ last.resp.status = "success"
     /\ last.resp.cached)
        => last.resp.data \in DiscoveredAt(last.req.prometheus_url)


(***************************************************************************)
(* Properties of the capability summary                                    *)
(***************************************************************************)
\* some node of the results has the hardware flag
SomeNodeHas(data, flag) == \E inst \in DOMAIN data.nodes : data.nodes[inst].hardware[flag]

TenKeys ==
    {"has_nvidia", "has_intel_gpu", "has_intel_npu", "has_mac", "has_multiple_nodes",
     "has_temperature", "has_power", "has_disk", "has_network", "has_processes"}

\* C25: in a fresh discover result each capability flag reflects the hardware flags of
\* the nodes: has_nvidia, has_intel_gpu, has_intel_npu and has_mac are true iff some node
\* has nvidia_gpu, intel_gpu, intel_npu and mac; has_temperature, has_power and
\* has_processes iff some node has has_temp, has_power and has_process;
\* has_multiple_nodes iff there is more than one node; and the capabilities record has
\* exactly the ten keys it was initialised with.
C25_CapabilityFlags ==
    (/\ op = "discover"
     /\ last.resp.status = "success"
     /\ ~last.resp.cached)
        => /\ DOMAIN last.resp.data.capabilities = TenKeys
           /\ last.resp.data.capabilities.has_nvidia = SomeNodeHas(last.resp.data, "nvidia_gpu")
           /\ last.resp.data.capabilities.has_intel_gpu
                  = SomeNodeHas(last.resp.data, "intel_gpu")
           /\ last.resp.data.capabilities.has_intel_npu
                  = SomeNodeHas(last.resp.data, "intel_npu")
           /\ last.resp.data.capabilities.has_mac = SomeNodeHas(last.resp.data, "mac")
           /\ last.resp.data.capabilities.has_temperature
                  = SomeNodeHas(last.resp.data, "has_temp")
           /\ last.resp.data.capabilities.has_power = SomeNodeHas(last.resp.data, "has_power")
           /\ last.resp.data.capabilities.has_processes
                  = SomeNodeHas(last.resp.data, "has_process")
           /\ last.resp.data.capabilities.has_multiple_nodes
                  = (Cardinality(DOMAIN last.resp.data.nodes) > 1)


(***************************************************************************)
(* Properties of the hostnames                                             *)
(***************************************************************************)
\* the series the two hostname metrics have on the server, none for a failing query
HostnameSeries(P) ==
    (IF P.uname.failed THEN {} ELSE SeqRange(P.uname.items))
        \cup (IF P.host.failed THEN {} ELSE SeqRange(P.host.items))

\* the nodename and host labels of the series whose instance label has ip as host part
OwnLabels(P, ip) ==
    UNION {{sr.nodename, sr.host} \ {""} :
               sr \in {s \in HostnameSeries(P) :
                          SubSeq(s.instance, 1, Len(ip) + 1) = ip \o ":"}}

\* C26: the hostname resolved for a node comes only from series of that node: when no
\* node_uname_info or host series has an instance label whose host part is the ip of
\* the node, the hostname of the node is its ip, and a node never gets a hostname taken
\* from the series of a node with another ip.
C26_HostnameOwnSeries ==
    Identified =>
        \A i \in 1..Len(build.g.nodes) :
            \/ build.g.nodes[i].hostname = build.g.nodes[i].ip
            \/ build.g.nodes[i].hostname \in OwnLabels(prom, build.g.nodes[i].ip)


\* C27: whenever a validate response has ready=false (message "Setup incomplete - check
\* recommendations"), its recommendations list is non-empty.
C27_NotReadyRecommends ==
    (/\ ValidateDone
     /\ "ready" \in DOMAIN val.resp
     /\ ~val.resp.ready)
        => /\ val.resp.message = "Setup incomplete - check recommendations"
           /\ val.resp.recommendations # <<>>

====
